---- MODULE Spec2Model ----
(***************************************************************************)
(* Semantic indexing and retrieval cache of the Trelby AI assistant:       *)
(* AIAssistantPanel (trelby/ai_assistant.py) drives AIService              *)
(* (trelby/ai_service.py).  Every OnSend starts a worker thread running    *)
(* get_ai_response; the threads share the panel's fields, the AIService    *)
(* caches and the ChromaDB collection.                                     *)
(*                                                                         *)
(* Text is a sequence of one-character strings.  Python's hash() is not   *)
(* computed: PyHash tags its argument, and one pair of strings stands for  *)
(* two strings of equal hash.  Embedding vectors are not represented by    *)
(* numbers: a vector is tagged with the text it embeds.                    *)
(***************************************************************************)
EXTENDS Integers, Sequences, FiniteSets, TLC

(***************************************************************************)
(* Bounds of the model.                                                    *)
(***************************************************************************)
MaxSends == 3
MaxEdits == 2
MaxFaults == 2
ParSends == 2
ParEdits == 1
ParFaults == 1

Threads == {1, 2}

(***************************************************************************)
(* Text helpers (Python str operations).                                   *)
(***************************************************************************)
Rep(c, n) == [i \in 1..n |-> c]

IsSpace(c) == c \in {" ", "\n", "\t"}

NonSpaceIdx(s) == {i \in 1..Len(s) : ~IsSpace(s[i])}

SetMin(S) == CHOOSE x \in S : \A y \in S : x <= y

\* the greatest element, found as the least of the negated elements
SetMax(S) == 0 - SetMin({0 - x : x \in S})

\* str.strip()
Strip(s) ==
    IF NonSpaceIdx(s) = {} THEN <<>>
    ELSE SubSeq(s, SetMin(NonSpaceIdx(s)), SetMax(NonSpaceIdx(s)))

\* s[:n]
Take(s, n) == SubSeq(s, 1, IF Len(s) < n THEN Len(s) ELSE n)

\* "\n".join(parts)
RECURSIVE JoinRange(_, _, _)
JoinRange(parts, lo, hi) ==
    IF lo > hi THEN <<>>
    ELSE IF lo = hi THEN parts[lo]
    ELSE LET mid == (lo + hi) \div 2
         IN  JoinRange(parts, lo, mid) \o <<"\n">> \o JoinRange(parts, mid + 1, hi)

JoinLines(parts) == JoinRange(parts, 1, Len(parts))

DigitChar(d) == <<"0", "1", "2", "3", "4", "5", "6", "7", "8", "9">>[d + 1]

\* str(n) for n >= 0
RECURSIVE Str(_)
Str(n) == IF n < 10 THEN <<DigitChar(n)>> ELSE Str(n \div 10) \o <<DigitChar(n % 10)>>

\* the query strings the user types
QueryRain == <<"r", "a", "i", "n">>

QueryRainCapital == <<"R", "a", "i", "n">>

QuerySnow == <<"s", "n", "o", "w">>

\* hash(s) maps the strings to 64-bit integers: it is deterministic within a
\* process and not injective.  QueryRain and QuerySnow stand for two distinct
\* strings with one hash value; every other string of the model has its own.
HashCollision == {QueryRain, QuerySnow}

PyHash(s) == [h |-> IF s \in HashCollision THEN QueryRain ELSE s]

\* hash() of str is salted with a seed drawn when the interpreter starts
\* (PYTHONHASHSEED): the value an earlier process gave for the same string
PyHashEarlier(s) == [h |-> <<"#">> \o PyHash(s).h]

\* the chunk id an earlier process computed where this process computes id: the
\* hash is the last part of f"scene_{n}_{hash}" and of f"fallback_{hash}"
EarlierId(id) == [id EXCEPT ![Len(id)] = PyHashEarlier(@.h)]

\* Python's None, as stored in a hash-valued field
NoneHash == [none |-> TRUE]

(***************************************************************************)
(* Line types and line breaks of trelby.screenplay, as used by the         *)
(* chunker.                                                                *)
(***************************************************************************)
SCENE == "SCENE"
\* ACTION of trelby.screenplay (ACTION is a reserved word of TLA+)
ACTION_LT == "ACTION"
CHARACTER == "CHARACTER"
DIALOGUE == "DIALOGUE"
PAREN == "PAREN"
TRANSITION == "TRANSITION"
LB_LAST == "LB_LAST"
LB_SPACE == "LB_SPACE"

Line(lt, lb, text) == [lt |-> lt, lb |-> lb, text |-> text]

(***************************************************************************)
(* AIService.chunk_screenplay_scenes                                       *)
(***************************************************************************)
ChunkIdPrefix == 50

\* chunk_id = f"scene_{scene_number}_{hash(scene_text[:50])}"
SceneChunk(st) ==
    [text |-> JoinLines(st.text),
     metadata |-> st.meta,
     id |-> <<"scene", Str(st.n), PyHash(Take(JoinLines(st.text), ChunkIdPrefix))>>]

\* a flush that keeps a scene of white space
FlushSceneAlways(st) ==
    IF st.text # <<>> THEN Append(st.chunks, SceneChunk(st)) ELSE st.chunks

\* "Save previous scene if it exists" / "Add the last scene"
FlushScene(st) ==
    IF st.text # <<>> /\ Strip(JoinLines(st.text)) # <<>>
    THEN Append(st.chunks, SceneChunk(st))
    ELSE st.chunks

\* scenes numbered from 0
SceneMetadataFromZero(n, line, i) ==
    ("type" :> "scene") @@ ("scene_number" :> n - 1) @@ ("scene_heading" :> line.text)
    @@ ("line_number" :> i) @@ ("element_type" :> "scene_heading")

SceneMetadata(n, line, i) ==
    ("type" :> "scene") @@ ("scene_number" :> n) @@ ("scene_heading" :> line.text)
    @@ ("line_number" :> i) @@ ("element_type" :> "scene_heading")

\* flags that pass over the action lines
LineFlagNoAction(lt, meta) ==
    IF lt = CHARACTER THEN ("has_character" :> TRUE) @@ meta
    ELSE IF lt = DIALOGUE THEN ("has_dialogue" :> TRUE) @@ meta
    ELSE meta

LineFlag(lt, meta) ==
    IF lt = CHARACTER THEN ("has_character" :> TRUE) @@ meta
    ELSE IF lt = DIALOGUE THEN ("has_dialogue" :> TRUE) @@ meta
    ELSE IF lt = ACTION_LT THEN ("has_action" :> TRUE) @@ meta
    ELSE meta

\* an iteration that starts a scene without counting it
ChunkStepSameNumber(st, line, i) ==
    IF line.lt = SCENE /\ line.lb = LB_LAST
    THEN [chunks |-> FlushScene(st),
          text |-> <<line.text>>,
          meta |-> SceneMetadata(st.n + 1, line, i),
          n |-> st.n]
    ELSE [chunks |-> st.chunks,
          text |-> Append(st.text, line.text),
          meta |-> LineFlag(line.lt, st.meta),
          n |-> st.n]

\* one iteration of "for i, line in enumerate(screenplay.lines)"; i is 0-based
ChunkStep(st, line, i) ==
    IF line.lt = SCENE /\ line.lb = LB_LAST
    THEN [chunks |-> FlushScene(st),
          text |-> <<line.text>>,
          meta |-> SceneMetadata(st.n + 1, line, i),
          n |-> st.n + 1]
    ELSE [chunks |-> st.chunks,
          text |-> Append(st.text, line.text),
          meta |-> LineFlag(line.lt, st.meta),
          n |-> st.n]

\* st.n counts the scenes and is never negative: reading it makes the evaluator
\* compute the state of one iteration before it starts the next
RECURSIVE ChunkLoop(_, _, _)
ChunkLoop(lines, k, st) ==
    IF k > Len(lines) \/ st.n < 0 THEN st
    ELSE ChunkLoop(lines, k + 1, ChunkStep(st, lines[k], k - 1))

chunk_screenplay_scenes(lines) ==
    FlushScene(ChunkLoop(lines, 1, [chunks |-> <<>>, text |-> <<>>, meta |-> <<>>, n |-> 0]))

(***************************************************************************)
(* AIService.create_fallback_chunk                                         *)
(***************************************************************************)
FallbackIdPrefix == 100

\* the text 'Entire Screenplay'
EntireScreenplay ==
    <<"E", "n", "t", "i", "r", "e", " ", "S", "c", "r", "e", "e", "n", "p", "l", "a", "y">>

create_fallback_chunk(lines) ==
    LET screenplay_text == JoinLines([i \in 1..Len(lines) |-> lines[i].text])
    IN  IF Strip(screenplay_text) = <<>> THEN <<>>
        ELSE << [text |-> screenplay_text,
                 metadata |-> ("type" :> "fallback") @@ ("scene_number" :> 1)
                              @@ ("scene_heading" :> EntireScreenplay)
                              @@ ("line_number" :> 0) @@ ("element_type" :> "fallback")
                              @@ ("total_lines" :> Len(lines)),
                 id |-> <<"fallback", PyHash(Take(screenplay_text, FallbackIdPrefix))>>] >>

(***************************************************************************)
(* AIService.store_screenplay_embeddings, up to the embedding call         *)
(***************************************************************************)
MinContentChars == 100

\* total_text: every line with non-blank text, each followed by one space
RECURSIVE TotalRange(_, _, _)
TotalRange(lines, lo, hi) ==
    IF lo > hi THEN <<>>
    ELSE IF lo = hi
         THEN (IF Strip(lines[lo].text) # <<>> THEN lines[lo].text \o <<" ">> ELSE <<>>)
    ELSE LET mid == (lo + hi) \div 2
         IN  TotalRange(lines, lo, mid) \o TotalRange(lines, mid + 1, hi)

TotalText(lines) == TotalRange(lines, 1, Len(lines))

\* the two "insufficient content" returns
HasMeaningfulContent(lines) ==
    /\ Len(lines) > 1
    /\ Len(Strip(TotalText(lines))) >= MinContentChars

\* chunks = chunk_screenplay_scenes(...) or create_fallback_chunk(...)
ChunksToStore(lines) ==
    IF chunk_screenplay_scenes(lines) # <<>> THEN chunk_screenplay_scenes(lines)
    ELSE create_fallback_chunk(lines)

(***************************************************************************)
(* AIAssistantPanel.get_screenplay_hash                                    *)
(***************************************************************************)
HashPrefixLines == 50
HashPrefixChars == 1000

\* a loop that reads every line, with no limit of 50 lines
RECURSIVE HashContentAllLines(_, _, _)
HashContentAllLines(lines, k, content) ==
    IF k > Len(lines) THEN content
    ELSE LET c == content \o lines[k].text
         IN  IF Len(c) > HashPrefixChars THEN c ELSE HashContentAllLines(lines, k + 1, c)

\* a loop that reads the first 50 lines whatever their length
RECURSIVE HashContentNoBudget(_, _, _)
HashContentNoBudget(lines, k, content) ==
    IF k > Len(lines) THEN content
    ELSE LET c == IF k - 1 < HashPrefixLines THEN content \o lines[k].text ELSE content
         IN  IF Len(c) < 0 THEN c ELSE HashContentNoBudget(lines, k + 1, c)

\* a loop that hashes the type of each line with its text
RECURSIVE HashContentTagged(_, _, _)
HashContentTagged(lines, k, content) ==
    IF k > Len(lines) THEN content
    ELSE LET c == IF k - 1 < HashPrefixLines
                  THEN content \o <<lines[k].lt>> \o lines[k].text
                  ELSE content
         IN  IF Len(c) > HashPrefixChars THEN c ELSE HashContentTagged(lines, k + 1, c)

\* the loop: content grows by the lines with index < 50; the loop stops after
\* the first line that leaves more than 1000 characters accumulated
RECURSIVE HashContent(_, _, _)
HashContent(lines, k, content) ==
    IF k > Len(lines) THEN content
    ELSE LET c == IF k - 1 < HashPrefixLines THEN content \o lines[k].text ELSE content
         IN  IF Len(c) > HashPrefixChars THEN c ELSE HashContent(lines, k + 1, c)

get_screenplay_hash(lines) == PyHash(HashContent(lines, 1, <<>>) \o Str(Len(lines)))

(***************************************************************************)
(* The documents the editor can hold (the external collaborator supplies   *)
(* the line sequence).  NoScreenplay: get_current_screenplay returns None. *)
(***************************************************************************)
LongLineChars == 60

\* the length of a line of which three exceed the 1000 characters of the hash
WideLineChars == 400

NoScreenplay == "none"

\* one scene, enough text
DocOneScene ==
    << Line(SCENE, LB_LAST, <<"I", "N", "T", ".", " ", "A">>),
       Line(ACTION_LT, LB_LAST, Rep("a", LongLineChars)),
       Line(DIALOGUE, LB_LAST, Rep("b", LongLineChars)) >>

\* two scenes, enough text
DocTwoScenes ==
    << Line(SCENE, LB_LAST, <<"E", "X", "T", ".", " ", "B">>),
       Line(ACTION_LT, LB_LAST, Rep("c", LongLineChars)),
       Line(SCENE, LB_LAST, <<"I", "N", "T", ".", " ", "C">>),
       Line(CHARACTER, LB_LAST, <<"B", "O", "B">>),
       Line(DIALOGUE, LB_LAST, Rep("d", LongLineChars)) >>

\* one scene, under the minimum content
DocShort ==
    << Line(SCENE, LB_LAST, <<"I", "N", "T", ".", " ", "D">>),
       Line(ACTION_LT, LB_LAST, <<"h", "i">>) >>

\* four scenes, enough text: more chunks than a search asks for
DocFourScenes ==
    << Line(SCENE, LB_LAST, <<"I", "N", "T", ".", " ", "E">>),
       Line(ACTION_LT, LB_LAST, Rep("e", LongLineChars)),
       Line(SCENE, LB_LAST, <<"E", "X", "T", ".", " ", "F">>),
       Line(DIALOGUE, LB_LAST, Rep("f", LongLineChars)),
       Line(SCENE, LB_LAST, <<"I", "N", "T", ".", " ", "G">>),
       Line(ACTION_LT, LB_LAST, <<"g", "o">>),
       Line(SCENE, LB_LAST, <<"E", "X", "T", ".", " ", "H">>),
       Line(CHARACTER, LB_LAST, <<"A", "N", "N">>) >>

\* one line more than get_screenplay_hash reads
LongLines == HashPrefixLines + 1

\* a heading, lines of the text fill, and a last line beyond the hashed prefix
LongDoc(fill, last) ==
    [i \in 1..LongLines |->
        IF i = 1 THEN Line(SCENE, LB_LAST, <<"I", "N", "T", ".", " ", "L">>)
        ELSE IF i = LongLines THEN Line(ACTION_LT, LB_LAST, last)
        ELSE Line(ACTION_LT, LB_LAST, fill)]

\* no scene heading, enough text
DocHeadless ==
    << Line(CHARACTER, LB_LAST, <<"A", "N", "N">>),
       Line(DIALOGUE, LB_LAST, Rep("p", LongLineChars)),
       Line(ACTION_LT, LB_LAST, Rep("q", LongLineChars)) >>

\* one line, with more text than the minimum content
DocSingleLine == << Line(ACTION_LT, LB_LAST, Rep("s", 2 * LongLineChars)) >>

\* three scenes with dialogue in each
DocThreeScenes ==
    << Line(SCENE, LB_LAST, <<"I", "N", "T", ".", " ", "M">>),
       Line(CHARACTER, LB_LAST, <<"A", "N", "N">>),
       Line(DIALOGUE, LB_LAST, Rep("m", LongLineChars)),
       Line(SCENE, LB_LAST, <<"E", "X", "T", ".", " ", "N">>),
       Line(CHARACTER, LB_LAST, <<"B", "O", "B">>),
       Line(DIALOGUE, LB_LAST, Rep("n", LongLineChars)),
       Line(SCENE, LB_LAST, <<"I", "N", "T", ".", " ", "O">>),
       Line(CHARACTER, LB_LAST, <<"A", "N", "N">>),
       Line(DIALOGUE, LB_LAST, <<"o", "k">>) >>

\* lines before the first heading, and a heading that runs over two lines
DocPreamble ==
    << Line(TRANSITION, LB_LAST, <<"F", "A", "D", "E", " ", "I", "N">>),
       Line(ACTION_LT, LB_LAST, <<"u", "p">>),
       Line(SCENE, LB_LAST, <<"I", "N", "T", ".", " ", "P">>),
       Line(ACTION_LT, LB_LAST, Rep("t", LongLineChars)),
       Line(SCENE, LB_SPACE, <<"E", "X", "T", ".">>),
       Line(SCENE, LB_LAST, <<"Q">>),
       Line(DIALOGUE, LB_LAST, Rep("u", LongLineChars)) >>

\* a heading of one space followed at once by the next heading
DocBlank ==
    << Line(SCENE, LB_LAST, <<" ">>),
       Line(SCENE, LB_LAST, <<"I", "N", "T", ".", " ", "R">>),
       Line(ACTION_LT, LB_LAST, Rep("r", LongLineChars)),
       Line(DIALOGUE, LB_LAST, Rep("v", LongLineChars)) >>

\* words of one letter: every other character is a space
SpacedText(n) == [i \in 1..n |-> IF i % 2 = 1 THEN "w" ELSE " "]

\* more than the minimum content counted with its spaces, less without them
DocSpacey ==
    << Line(SCENE, LB_LAST, <<"I", "N", "T", ".", " ", "S">>),
       Line(ACTION_LT, LB_LAST, SpacedText(LongLineChars - 1)),
       Line(DIALOGUE, LB_LAST, SpacedText(LongLineChars - 1)) >>

\* a screenplay of no lines
DocEmpty == << >>

\* one scene written twice: the same heading over the same action
DocTwins ==
    << Line(SCENE, LB_LAST, <<"I", "N", "T", ".", " ", "T">>),
       Line(ACTION_LT, LB_LAST, Rep("t", LongLineChars)),
       Line(SCENE, LB_LAST, <<"I", "N", "T", ".", " ", "T">>),
       Line(ACTION_LT, LB_LAST, Rep("t", LongLineChars)) >>

\* a scene followed by a line of action that reads like a heading
DocPlain ==
    << Line(SCENE, LB_LAST, <<"I", "N", "T", ".", " ", "A">>),
       Line(ACTION_LT, LB_LAST, Rep("a", LongLineChars)),
       Line(ACTION_LT, LB_LAST, <<"E", "X", "T", ".", " ", "B">>),
       Line(ACTION_LT, LB_LAST, Rep("b", LongLineChars)) >>

\* DocPlain after its third line was turned into a scene heading
DocRetagged == [DocPlain EXCEPT ![3] = Line(SCENE, LB_LAST, @.text)]

\* DocPlain after the first letter of its third line went up to the second line
DocReflowed ==
    [DocPlain EXCEPT ![2] = Line(@.lt, @.lb, Append(@.text, "E")),
                     ![3] = Line(@.lt, @.lb, Tail(@.text))]

\* five lines of which the first three hold more than 1000 characters; the
\* letters of the lines 3, 4 and 5 are given
WideDoc(third, fourth, fifth) ==
    << Line(SCENE, LB_LAST, Rep("a", WideLineChars)),
       Line(ACTION_LT, LB_LAST, Rep("b", WideLineChars)),
       Line(ACTION_LT, LB_LAST, Rep(third, WideLineChars)),
       Line(ACTION_LT, LB_LAST, Rep(fourth, WideLineChars)),
       Line(DIALOGUE, LB_LAST, Rep(fifth, WideLineChars - 1)) >>

DocNames == {"one", "two", "four", "short", "long_a", "long_b", "long_c",
             "headless", "single", "three", "preamble", "blank", "spacey", "empty",
             "twins", "plain", "retagged", "reflowed",
             "wide_a", "wide_b", "wide_c", "wide_d"}

DocLines(d) ==
    CASE d = "one" -> DocOneScene
      [] d = "two" -> DocTwoScenes
      [] d = "four" -> DocFourScenes
      [] d = "short" -> DocShort
      [] d = "long_a" -> LongDoc(<<"k", "l", "m">>, <<"x">>)
      [] d = "long_b" -> LongDoc(<<"k", "l", "m">>, <<"y", "z">>)
      [] d = "long_c" -> LongDoc(<<"k", "l", "n">>, <<"x">>)
      [] d = "headless" -> DocHeadless
      [] d = "single" -> DocSingleLine
      [] d = "three" -> DocThreeScenes
      [] d = "preamble" -> DocPreamble
      [] d = "blank" -> DocBlank
      [] d = "spacey" -> DocSpacey
      [] d = "empty" -> DocEmpty
      [] d = "twins" -> DocTwins
      [] d = "plain" -> DocPlain
      [] d = "retagged" -> DocRetagged
      [] d = "reflowed" -> DocReflowed
      [] d = "wide_a" -> WideDoc("c", "d", "e")
      [] d = "wide_b" -> WideDoc("c", "x", "y")
      [] d = "wide_c" -> WideDoc("z", "d", "e")
      [] d = "wide_d" -> Append(WideDoc("c", "d", "e"), Line(ACTION_LT, LB_LAST, <<"f">>))

\* the pure functions of the document, evaluated once per document
HashOfDoc == [d \in DocNames |-> get_screenplay_hash(DocLines(d))]

ContentOfDoc == [d \in DocNames |-> HasMeaningfulContent(DocLines(d))]

ChunksOfDoc == [d \in DocNames |-> ChunksToStore(DocLines(d))]

Queries == {QueryRain, QueryRainCapital, QuerySnow}

\* the vector the Embedding Gateway returns for a text
EmbeddingOf(text) == <<"vec", text>>

(***************************************************************************)
(* The distances the ChromaDB collection computes (external Vector Index). *)
(* Numbers with a fraction are counted in hundredths: the distance 1.5 is  *)
(* 150, the similarity 0.25 is 25.  A distance table gives the distance of *)
(* each stored vector from the query vector; the collection is created     *)
(* with the default metric, whose distances are not bounded by 2.          *)
(***************************************************************************)
RECURSIVE SeqOfSet(_)
SeqOfSet(S) ==
    IF S = {} THEN <<>>
    ELSE LET x == CHOOSE y \in S : TRUE IN <<x>> \o SeqOfSet(S \ {x})

\* the ids this process gives to the chunks of the model's documents
OwnIds ==
    SeqOfSet(UNION {{ChunksOfDoc[d][i].id : i \in 1..Len(ChunksOfDoc[d])} : d \in DocNames})

\* the ids of all the chunks of the model's documents, in an order of storage
KnownIds == OwnIds \o [i \in 1..Len(OwnIds) |-> EarlierId(OwnIds[i])]

Rank(id) == CHOOSE n \in 1..Len(KnownIds) : KnownIds[n] = id

DistanceTables == {"spread", "tied", "far"}

\* the scene number of an entry; 0 for an entry stored without one
SceneOf(e) ==
    IF "scene_number" \in DOMAIN e.metadata THEN e.metadata["scene_number"] ELSE 0

\* the distance of a stored entry from the query vector, by the scene of the entry:
\* "spread": 1.5, 0.0, 2.0, 0.5; "tied": all 1.0; "far": 3.0, 3.5, 4.0, 4.5
DistanceOf(table, e) ==
    CASE table = "spread" -> <<150, 0, 200, 50>>[((SceneOf(e) + 3) % 4) + 1]
      [] table = "tied" -> 100
      [] table = "far" -> 250 + 50 * (((SceneOf(e) + 3) % 4) + 1)

\* the index returns the nearest first, and equal distances in its order of storage
Nearer(table, e, f) ==
    \/ DistanceOf(table, e) < DistanceOf(table, f)
    \/ /\ DistanceOf(table, e) = DistanceOf(table, f)
       /\ Rank(e.id) <= Rank(f.id)

\* collection.query(query_embeddings, n_results): one row per result, with the
\* documents, metadatas and distances of the nearest n_results entries
RECURSIVE CollectionQuery(_, _, _)
CollectionQuery(coll, n_results, table) ==
    IF coll = {} \/ n_results = 0 THEN <<>>
    ELSE LET e == CHOOSE x \in coll : \A y \in coll : Nearer(table, x, y)
         IN  << [id |-> e.id, document |-> e.document, metadata |-> e.metadata,
                 distance |-> DistanceOf(table, e)] >>
             \o CollectionQuery(coll \ {e}, n_results - 1, table)

(***************************************************************************)
(* AIService.get_semantic_context                                          *)
(***************************************************************************)
\* get_ai_response asks for n_results=3
NResults == 3

ContextTextChars == 500

\* search_similar_scenes returned None
NoResults == [ok |-> FALSE, rows |-> <<>>]

\* search_similar_scenes(query, n_results) with n_results < 1: the ValueError of
\* collection.query is caught by "except Exception" like any other, return None
InvalidNumber(k) == NoResults

\* the old calculation, 1 - distance
SimilarityOld(distance) == 100 - distance

\* the distance halved, without the subtraction from 1
SimilarityAsDistance(distance) == distance \div 2

\* similarity = 1 - (distance / 2)
Similarity(distance) == 100 - distance \div 2

\* "Scene {metadata.get('scene_number', 'Unknown')}" and ": {scene_heading}"
SceneInfo(metadata) ==
    [scene_number |-> IF "scene_number" \in DOMAIN metadata THEN metadata["scene_number"]
                      ELSE "Unknown",
     scene_heading |-> IF "scene_heading" \in DOMAIN metadata THEN metadata["scene_heading"]
                       ELSE <<>>]

\* doc[:500] + "..." if len(doc) > 500 else doc
ContextText(doc) ==
    IF Len(doc) > ContextTextChars THEN Take(doc, ContextTextChars) \o <<".", ".", ".">>
    ELSE doc

\* the context parts: none for the empty string, else the header and one part
\* per row, in the order of the rows
get_semantic_context(results) ==
    IF ~results.ok THEN <<>>
    ELSE << "SEMANTIC SEARCH RESULTS:" >>
         \o [i \in 1..Len(results.rows) |->
                [scene_info |-> SceneInfo(results.rows[i].metadata),
                 similarity |-> Similarity(results.rows[i].distance),
                 text |-> ContextText(results.rows[i].document)]]

(***************************************************************************)
(* ScreenplayChunker (screenplay_chunker.py).  Its screenplay is an object *)
(* of the editor with lines, getSceneLocations() and                       *)
(* getSceneIndexesFromName(name); here: the lines and, per scene location  *)
(* in the order of getSceneLocations(), the name and the 0-based indexes   *)
(* that getSceneIndexesFromName returns, or that it raises.                *)
(***************************************************************************)
MaxChunkerScenes == 2

\* a line type without a prefix of its own ("other elements like NOTE, SHOT")
NOTE == "NOTE"

\* ScreenplayChunker(None)
MissingScreenplay == [present |-> FALSE, lines |-> <<>>, scenes |-> <<>>]

\* the lines of the MockScreenplay of test_screenplay_chunker
MockLines ==
    << Line(SCENE, LB_LAST, <<"I", "N", "T", ".", " ", "R", "O", "O", "M", " ", "-", " ", "D", "A", "Y">>),
       Line(ACTION_LT, LB_LAST, <<"A", " ", "p", "e", "r", "s", "o", "n", " ", "s", "i", "t", "s", " ", "a", "t", " ", "a", " ", "d", "e", "s", "k", ".">>),
       Line(CHARACTER, LB_LAST, <<"P", "E", "R", "S", "O", "N">>),
       Line(DIALOGUE, LB_LAST, <<"H", "e", "l", "l", "o", ",", " ", "w", "o", "r", "l", "d", "!">>),
       Line(ACTION_LT, LB_LAST, <<"T", "h", "e", "y", " ", "s", "m", "i", "l", "e", ".">>) >>

\* lines with a parenthetical, a transition, a blank note and a padded name
MixedLines ==
    << Line(SCENE, LB_LAST, <<"I", "N", "T", ".", " ", "A">>),
       Line(CHARACTER, LB_LAST, <<" ", "A", "N", "N", " ">>),
       Line(PAREN, LB_LAST, <<"(", "l", "o", "w", ")">>),
       Line(DIALOGUE, LB_LAST, <<"h", "i", " ", "y", "o", "u">>),
       Line(TRANSITION, LB_LAST, <<"C", "U", "T", " ", "T", "O", ":">>),
       Line(NOTE, LB_LAST, <<" ">>) >>

\* what getSceneIndexesFromName gives for one scene location
Place(name, start, end, raises) ==
    [name |-> name, start |-> start, end |-> end, raises |-> raises]

\* the places of the scenes: the (0, 4) of the test, one line, the parenthetical
\* alone, the transition and the blank note, a range past the last line, an
\* empty range, and a name for which the call raises
Places ==
    { Place("whole", 0, 4, FALSE), Place("first", 0, 0, FALSE),
      Place("paren", 2, 2, FALSE), Place("tail", 4, 5, FALSE),
      Place("past", 3, 9, FALSE), Place("none", 2, 1, FALSE),
      Place("raising", 0, 4, TRUE) }

\* the sequences of at most n places
RECURSIVE PlaceSeqs(_)
PlaceSeqs(n) ==
    IF n = 0 THEN {<<>>}
    ELSE PlaceSeqs(n - 1)
         \cup {Append(q, x) : q \in {r \in PlaceSeqs(n - 1) : Len(r) = n - 1}, x \in Places}

\* the screenplays a chunker is made for
ChunkerScreenplays ==
    {MissingScreenplay}
    \cup {[present |-> TRUE, lines |-> ls, scenes |-> q] :
             ls \in {MockLines, MixedLines, <<>>}, q \in PlaceSeqs(MaxChunkerScenes)}

\* a chunker that keeps the transitions
SkippedTypesParenOnly == {PAREN}

\* "if line.lt in (self.sp.PAREN, self.sp.TRANSITION): continue"
SkippedTypes == {PAREN, TRANSITION}

\* the prefix of _get_scene_content
Prefix(lt) ==
    CASE lt = SCENE -> <<"S", "c", "e", "n", "e", " ", "H", "e", "a", "d", "i", "n", "g", ":">>
      [] lt = CHARACTER -> <<"C", "h", "a", "r", "a", "c", "t", "e", "r", ":">>
      [] lt = DIALOGUE -> <<"D", "i", "a", "l", "o", "g", "u", "e", ":">>
      [] lt = ACTION_LT -> <<"A", "c", "t", "i", "o", "n", ":">>
      [] OTHER -> <<>>

\* range(start_line, min(end_line + 1, len(self.sp.lines))), as 1-based positions
SceneRange(lines, start, end) ==
    {i \in 1..Len(lines) : start + 1 <= i /\ i <= end + 1}

\* the numbers of a set in ascending order
RECURSIVE Ascending(_)
Ascending(S) ==
    IF S = {} THEN <<>> ELSE <<SetMin(S)>> \o Ascending(S \ {SetMin(S)})

\* f"{prefix} {line.text}".strip() for the lines of the range that are kept
ContentLines(lines, range) ==
    LET kept == Ascending({i \in range : lines[i].lt \notin SkippedTypes})
    IN  [k \in 1..Len(kept) |->
            Strip(Prefix(lines[kept[k]].lt) \o <<" ">> \o lines[kept[k]].text)]

\* ScreenplayChunker._get_scene_content
get_scene_content(lines, start, end) ==
    JoinLines(ContentLines(lines, SceneRange(lines, start, end)))

\* ScreenplayChunker._get_scene_characters (a list made from a set: no order)
get_scene_characters(lines, start, end) ==
    {Strip(lines[i].text) : i \in {j \in SceneRange(lines, start, end) :
                                       lines[j].lt = CHARACTER}}

\* len(content.split())
WordCount(content) ==
    Cardinality({i \in 1..Len(content) :
                    /\ ~IsSpace(content[i])
                    /\ (i = 1 \/ IsSpace(content[i - 1]))})

\* the body of the loop of chunk_by_scene for the i-th scene (i is 0-based): the
\* chunks with the chunk of the scene, or unchanged for blank content and for an
\* exception
SceneStep(lines, place, i, sofar) ==
    IF place.raises THEN sofar
    ELSE LET content == get_scene_content(lines, place.start, place.end)
         IN  IF Strip(content) = <<>> THEN sofar
             ELSE Append(sofar,
                     [id |-> <<"scene", Str(i + 1), Str(place.start), Str(place.end)>>,
                      text |-> content,
                      metadata |->
                          [scene_number |-> i + 1,
                           scene_name |-> place.name,
                           start_line |-> place.start,
                           end_line |-> place.end,
                           characters |-> get_scene_characters(lines, place.start,
                                                               place.end),
                           word_count |-> WordCount(content)]])

RECURSIVE SceneLoop(_, _, _, _)
SceneLoop(lines, scenes, k, sofar) ==
    IF k > Len(scenes) THEN sofar
    ELSE SceneLoop(lines, scenes, k + 1, SceneStep(lines, scenes[k], k - 1, sofar))

\* ScreenplayChunker.chunk_by_scene as a function of the chunker's screenplay
ChunksByScene(given) ==
    IF ~given.present THEN <<>>
    ELSE SceneLoop(given.lines, given.scenes, 1, <<>>)

(***************************************************************************)
(* State.                                                                  *)
(***************************************************************************)
VARIABLES
    sp,                        \* the editor's current screenplay (gd.mainFrame.panel.ctrl.sp)
    collection,                \* AIService.collection: the entries of the ChromaDB collection
    embeddings_initialized,    \* AIAssistantPanel.embeddings_initialized
    current_screenplay_hash,   \* AIAssistantPanel.current_screenplay_hash
    last_screenplay_hash,      \* AIService.last_screenplay_hash
    query_embedding_cache,     \* AIService.query_embedding_cache
    send_button,               \* send_button is enabled
    pc,                        \* position of each worker thread in get_ai_response
    user_message,              \* get_ai_response's argument
    current_hash,              \* ensure_embeddings_up_to_date's local
    ids,                       \* clear_embeddings' local
    chunks,                    \* store_screenplay_embeddings' local
    embeddings,                \* store_screenplay_embeddings' local: number of vectors returned
    query_embeddings,          \* search_similar_scenes' local: the vector list of the query
    search_results,            \* get_semantic_context's local: what search_similar_scenes returned
    semantic_context,          \* get_ai_response's local: the context parts, <<>> for ""
    situation,                 \* history: the state of the index when the thread asked for context
    sends, edits, faults,      \* counters that bound the model
    limit,                     \* the bounds of the run: worker threads, sends, edits, faults,
                               \*   and the documents, queries and distances of its inputs,
                               \*   the services the panel could construct and the
                               \*   screenplays a ScreenplayChunker is made for
    ensure_doc,                \* history: the document the thread's ensure call hashed
    n_results,                 \* get_semantic_context's argument
    store_doc,                 \* history: the document store_screenplay_embeddings read
    ensure_result,             \* history: outcome of the thread's ensure_embeddings_up_to_date
    embed_calls,               \* history: Embedding Gateway calls of the thread's ensure call
    index_writes,              \* history: collection.delete/add calls of the thread's ensure call
    pre_collection,            \* history: the collection when the thread's rebuild began
    store_fault,               \* history: a Vector Index call of the thread's rebuild failed
    prev_ensure,               \* history: the ensure call that completed before the thread's began
    last_ensure,               \* history: the last completed ensure call
    search_result,             \* history: outcome of the thread's search_similar_scenes
    query_embed_calls,         \* history: Embedding Gateway calls of the thread's search
    prev_search,               \* history: the search that completed before the thread's began
    last_search,               \* history: the last completed search; "cleared" once
                               \*          clear_query_cache has run since it cached its vector
    ai_service,                \* AIAssistantPanel.ai_service is not None
    embedding_ai_service,      \* AIAssistantPanel.embedding_ai_service is not None
    cached_system_prompt,      \* AIService.cached_system_prompt
    cached_semantic_context,   \* AIService.cached_semantic_context
    cached_document_context,   \* AIService.cached_document_context
    response,                  \* get_ai_response's local: what it posts to handle_ai_response
    chunker                    \* a ScreenplayChunker: its screenplay (self.sp) and what its
                               \*   chunk_by_scene returned

shared == << sp, collection, embeddings_initialized, current_screenplay_hash,
             last_screenplay_hash, query_embedding_cache, send_button >>

locals == << pc, user_message, current_hash, ids, chunks, embeddings >>

retrieval == << query_embeddings, search_results, semantic_context, situation, n_results >>

counters == << sends, edits, faults, limit >>

history == << ensure_doc, store_doc, ensure_result, embed_calls, index_writes,
              pre_collection, store_fault, prev_ensure, last_ensure, search_result,
              query_embed_calls, prev_search, last_search >>

services == << ai_service, embedding_ai_service >>

caches == << cached_system_prompt, cached_semantic_context, cached_document_context >>

vars == << shared, locals, retrieval, counters, history, services, caches, response,
          chunker >>

\* Python's None in a cache field of AIService
NotCached == "None"

NoEnsure == [doc |-> NoScreenplay, ok |-> FALSE]

NoSearch == [query |-> <<>>, result |-> "none"]

\* between the start of clear_embeddings and the return of process_screenplay_embeddings_sync
InRebuild(t) == pc[t] \in {"clear_get", "clear_delete", "store", "add", "finish"}

\* between the first line of search_similar_scenes and its return
InSearch(t) == pc[t] \in {"query_embed", "query"}

(***************************************************************************)
(* AIAssistantPanel.__init__ and AIService.__init__; the editor holds any  *)
(* document.                                                               *)
(***************************************************************************)
Start ==
    /\ sp \in limit.docs \cup {NoScreenplay}
    /\ collection \in limit.persisted
    /\ embeddings_initialized = FALSE
    /\ current_screenplay_hash = NoneHash
    /\ last_screenplay_hash = NoneHash
    /\ query_embedding_cache = <<>>
    /\ send_button = TRUE
    /\ pc = [t \in Threads |-> "idle"]
    /\ user_message = [t \in Threads |-> <<>>]
    /\ current_hash = [t \in Threads |-> NoneHash]
    /\ ids = [t \in Threads |-> {}]
    /\ chunks = [t \in Threads |-> <<>>]
    /\ embeddings = [t \in Threads |-> 0]
    /\ query_embeddings = [t \in Threads |-> <<>>]
    /\ search_results = [t \in Threads |-> NoResults]
    /\ semantic_context = [t \in Threads |-> <<>>]
    /\ situation = [t \in Threads |-> "none"]
    /\ n_results = [t \in Threads |-> NResults]
    /\ sends = 0
    /\ edits = 0
    /\ faults = 0
    /\ ensure_doc = [t \in Threads |-> NoScreenplay]
    /\ store_doc = [t \in Threads |-> NoScreenplay]
    /\ ensure_result = [t \in Threads |-> "none"]
    /\ embed_calls = [t \in Threads |-> 0]
    /\ index_writes = [t \in Threads |-> 0]
    /\ pre_collection = [t \in Threads |-> {}]
    /\ store_fault = [t \in Threads |-> FALSE]
    /\ prev_ensure = [t \in Threads |-> NoEnsure]
    /\ last_ensure = NoEnsure
    /\ search_result = [t \in Threads |-> "none"]
    /\ query_embed_calls = [t \in Threads |-> 0]
    /\ prev_search = [t \in Threads |-> NoSearch]
    /\ last_search = NoSearch
    /\ ai_service \in limit.ai
    /\ embedding_ai_service \in limit.embedding_ai
    /\ cached_system_prompt = NotCached
    /\ cached_semantic_context = NotCached
    /\ cached_document_context = NotCached
    /\ response = [t \in Threads |-> "none"]
    /\ \E given \in limit.chunkers :
           chunker = [sp |-> given, called |-> FALSE, chunks |-> <<>>]

\* worker threads run in parallel: an OnSend may come while a thread is running
Init ==
    /\ limit = [threads |-> Threads, sends |-> ParSends, edits |-> ParEdits,
                faults |-> ParFaults, docs |-> {"one", "two", "short"},
                queries |-> {QueryRain},
                distances |-> {"spread"},
                persisted |-> {{}}, ks |-> {NResults},
                ai |-> {TRUE}, embedding_ai |-> {TRUE},
                chunkers |-> {MissingScreenplay}]
    /\ Start

\* one request at a time: every OnSend comes after handle_ai_response
InitSeq ==
    /\ limit = [threads |-> {1}, sends |-> MaxSends, edits |-> MaxEdits,
                faults |-> MaxFaults, docs |-> {"one", "four", "short"},
                queries |-> Queries, distances |-> DistanceTables,
                persisted |-> {{}}, ks |-> {NResults},
                ai |-> {TRUE}, embedding_ai |-> {TRUE},
                chunkers |-> {MissingScreenplay}]
    /\ Start

\* one request at a time, one query string, every distance table
InitFind ==
    /\ limit = [threads |-> {1}, sends |-> ParSends, edits |-> ParEdits,
                faults |-> ParFaults, docs |-> {"one", "four"},
                queries |-> {QueryRain}, distances |-> DistanceTables,
                persisted |-> {{}}, ks |-> {NResults},
                ai |-> {TRUE}, embedding_ai |-> {TRUE},
                chunkers |-> {MissingScreenplay}]
    /\ Start

\* one request at a time, on screenplays longer than get_screenplay_hash reads
InitLong ==
    /\ limit = [threads |-> {1}, sends |-> ParSends, edits |-> ParEdits,
                faults |-> ParFaults, docs |-> {"long_a", "long_b", "long_c"},
                queries |-> {QueryRain}, distances |-> {"tied"},
                persisted |-> {{}}, ks |-> {NResults},
                ai |-> {TRUE}, embedding_ai |-> {TRUE},
                chunkers |-> {MissingScreenplay}]
    /\ Start

\* one request at a time, on screenplays that exercise the chunker: no heading,
\* one line, no line, lines before the first heading, a blank scene
InitChunk ==
    /\ limit = [threads |-> {1}, sends |-> ParSends, edits |-> ParEdits,
                faults |-> ParFaults,
                docs |-> {"headless", "single", "three", "preamble", "blank",
                          "spacey", "empty"},
                queries |-> {QueryRain}, distances |-> {"tied"},
                persisted |-> {{}}, ks |-> {NResults},
                ai |-> {TRUE}, embedding_ai |-> {TRUE},
                chunkers |-> {MissingScreenplay}]
    /\ Start

(***************************************************************************)
(* The editor changes the lines of its screenplay in place (external       *)
(* collaborator).                                                          *)
(***************************************************************************)
EditDocument ==
    /\ edits < limit.edits
    /\ sp # NoScreenplay
    /\ \E d \in limit.docs \ {sp} : sp' = d
    /\ edits' = edits + 1
    /\ UNCHANGED retrieval
    /\ UNCHANGED << collection, embeddings_initialized, current_screenplay_hash,
                    last_screenplay_hash, query_embedding_cache, send_button,
                    locals, sends, faults, limit, history >>
    /\ UNCHANGED << chunker, services, caches, response >>

(***************************************************************************)
(* AIAssistantPanel.OnSend: Send button or Enter key (EVT_TEXT_ENTER is    *)
(* not disabled with the button).  Starts a thread running                 *)
(* get_ai_response.                                                        *)
(***************************************************************************)
OnSend(t, message) ==
    /\ t \in limit.threads
    /\ message \in limit.queries
    /\ pc[t] = "idle"
    /\ \A u \in limit.threads : u < t => pc[u] # "idle"  \* threads are anonymous
    /\ sends < limit.sends
    /\ sends' = sends + 1
    /\ IF ai_service
       THEN \* the button is disabled and a thread runs get_ai_response
            /\ send_button' = FALSE
            /\ pc' = [pc EXCEPT ![t] = "ensure"]
            /\ user_message' = [user_message EXCEPT ![t] = message]
       ELSE \* "AI service is not available": the button is enabled again
            /\ send_button' = TRUE
            /\ UNCHANGED << pc, user_message >>
    /\ UNCHANGED retrieval
    /\ UNCHANGED << sp, collection, embeddings_initialized, current_screenplay_hash,
                    last_screenplay_hash, query_embedding_cache,
                    current_hash, ids, chunks, embeddings, edits, faults, limit, history >>
    /\ UNCHANGED << chunker, services, caches, response >>

(***************************************************************************)
(* AIService.update_screenplay_hash                                        *)
(***************************************************************************)
\* AIService.clear_context_cache
clear_context_cache ==
    /\ cached_semantic_context' = NotCached
    /\ cached_document_context' = NotCached

\* an update that clears the system prompt with the context
update_screenplay_hash_all(screenplay_hash) ==
    /\ last_screenplay_hash' = screenplay_hash
    /\ IF screenplay_hash # last_screenplay_hash
       THEN clear_context_cache /\ cached_system_prompt' = NotCached
       ELSE UNCHANGED caches

update_screenplay_hash(screenplay_hash) ==
    /\ last_screenplay_hash' =
           IF screenplay_hash # last_screenplay_hash THEN screenplay_hash
           ELSE last_screenplay_hash
    /\ IF screenplay_hash # last_screenplay_hash
       THEN clear_context_cache
       ELSE UNCHANGED << cached_semantic_context, cached_document_context >>
    /\ UNCHANGED cached_system_prompt

\* the hash comparison that decides to skip the rebuild
Unchanged(h) == h = current_screenplay_hash

\* get_screenplay_hash of the editor's screenplay: None for one it cannot read
HashOf(s) == IF s = NoScreenplay THEN NoneHash ELSE HashOfDoc[s]

\* a snapshot taken for readable whatever it is
ReadableAlways(s) == FALSE

\* "if not screenplay: return False" and "if current_hash is None: return False"
Unreadable(s) == s = NoScreenplay \/ HashOf(s) = NoneHash

(***************************************************************************)
(* AIAssistantPanel.ensure_embeddings_up_to_date, up to the call of        *)
(* process_screenplay_embeddings_sync.                                     *)
(***************************************************************************)
EnsureStart(t) ==
    /\ pc[t] = "ensure"
    /\ ensure_doc' = [ensure_doc EXCEPT ![t] = sp]
    /\ store_doc' = [store_doc EXCEPT ![t] = NoScreenplay]
    /\ prev_ensure' = [prev_ensure EXCEPT ![t] =
                          IF \E u \in Threads \ {t} : InRebuild(u) THEN NoEnsure
                          ELSE last_ensure]
    /\ embed_calls' = [embed_calls EXCEPT ![t] = 0]
    /\ index_writes' = [index_writes EXCEPT ![t] = 0]
    /\ store_fault' = [store_fault EXCEPT ![t] = FALSE]
    /\ IF Unreadable(sp)
       THEN \* "No screenplay available": return False
            /\ pc' = [pc EXCEPT ![t] = "context"]
            /\ ensure_result' = [ensure_result EXCEPT ![t] = "no_screenplay"]
            /\ last_ensure' = [doc |-> sp, ok |-> FALSE]
            /\ UNCHANGED << last_screenplay_hash, current_hash, pre_collection, caches >>
       ELSE IF Unchanged(HashOf(sp))
       THEN \* "Screenplay unchanged": return True
            /\ IF embedding_ai_service
               THEN update_screenplay_hash(HashOf(sp))
               ELSE UNCHANGED << last_screenplay_hash, caches >>
            /\ pc' = [pc EXCEPT ![t] = "context"]
            /\ ensure_result' = [ensure_result EXCEPT ![t] = "skipped"]
            /\ last_ensure' = [doc |-> sp, ok |-> TRUE]
            /\ UNCHANGED << current_hash, pre_collection >>
       ELSE \* "Screenplay changed": process_screenplay_embeddings_sync
            /\ current_hash' = [current_hash EXCEPT ![t] = HashOf(sp)]
            /\ pc' = [pc EXCEPT ![t] = "clear_get"]
            /\ ensure_result' = [ensure_result EXCEPT ![t] = "running"]
            /\ pre_collection' = [pre_collection EXCEPT ![t] = collection]
            /\ UNCHANGED << last_screenplay_hash, last_ensure, caches >>
    /\ UNCHANGED retrieval
    /\ UNCHANGED << sp, collection, embeddings_initialized, current_screenplay_hash,
                    query_embedding_cache, send_button, user_message, ids, chunks,
                    embeddings, counters, search_result, query_embed_calls,
                    prev_search, last_search >>
    /\ UNCHANGED << chunker, services, response >>

(***************************************************************************)
(* The ChromaDB collection (external Vector Index).  add() ignores a       *)
(* record whose id is already stored.                                      *)
(***************************************************************************)
Entry(chunk) ==
    [id |-> chunk.id, document |-> chunk.text, metadata |-> chunk.metadata,
     embedding |-> EmbeddingOf(chunk.text)]

StoredIds(coll) == {e.id : e \in coll}

\* collection.get()["ids"]
CollectionGetIds(coll) == StoredIds(coll)

\* collection.delete(ids=ids)
CollectionDelete(coll, idset) == {e \in coll : e.id \notin idset}

\* collection.add(embeddings, documents, metadatas, ids)
CollectionAdd(coll, cs) ==
    coll \cup {Entry(cs[i]) : i \in {j \in 1..Len(cs) : cs[j].id \notin StoredIds(coll)}}

\* the entries a rebuild of these chunks is to leave in the index
EntriesOf(cs) == {Entry(cs[i]) : i \in 1..Len(cs)}

\* chromadb.PersistentClient(path="./chroma_db"): the entries an earlier process
\* left on disk when it indexed the document d
PersistedBy(d) ==
    {[Entry(ChunksOfDoc[d][i]) EXCEPT !.id = EarlierId(@)] : i \in 1..Len(ChunksOfDoc[d])}

(***************************************************************************)
(* process_screenplay_embeddings_sync returns False (its else branch and   *)
(* its except branch) and ensure_embeddings_up_to_date returns False.      *)
(***************************************************************************)
\* a failure that leaves the rebuild as an exception instead of a returned False:
\* the thread is gone from the rebuild and no result was recorded
RebuildEscapes(t, why) ==
    /\ embeddings_initialized' = embeddings_initialized
    /\ pc' = [pc EXCEPT ![t] = "posted"]
    /\ ensure_result' = [ensure_result EXCEPT ![t] = "running"]
    /\ last_ensure' = last_ensure

\* "return False" of store_screenplay_embeddings and the else branch of
\* process_screenplay_embeddings_sync
RebuildFails(t, why) ==
    /\ embeddings_initialized' = FALSE
    /\ pc' = [pc EXCEPT ![t] = "context"]
    /\ ensure_result' = [ensure_result EXCEPT ![t] = why]
    /\ last_ensure' = [doc |-> ensure_doc[t], ok |-> FALSE]

(***************************************************************************)
(* AIService.clear_embeddings: collection.get(), then collection.delete(). *)
(* An exception of either call is caught inside and the returned False is  *)
(* ignored by process_screenplay_embeddings_sync.                          *)
(***************************************************************************)
ClearGet(t) ==
    /\ pc[t] = "clear_get"
    /\ IF ~embedding_ai_service
       THEN \* "if self.embedding_ai_service:" passes over both clears
            /\ pc' = [pc EXCEPT ![t] = "store"]
            /\ UNCHANGED << ids, faults, store_fault >>
       ELSE \/ /\ ids' = [ids EXCEPT ![t] = CollectionGetIds(collection)]
               /\ pc' = [pc EXCEPT ![t] =
                            IF CollectionGetIds(collection) = {} THEN "store"
                            ELSE "clear_delete"]
               /\ UNCHANGED << faults, store_fault >>
            \/ /\ faults < limit.faults
               /\ faults' = faults + 1
               /\ store_fault' = [store_fault EXCEPT ![t] = TRUE]
               /\ pc' = [pc EXCEPT ![t] = "store"]
               /\ UNCHANGED ids
    /\ IF embedding_ai_service /\ pc'[t] = "store"
       THEN clear_context_cache
       ELSE UNCHANGED << cached_semantic_context, cached_document_context >>
    /\ UNCHANGED retrieval
    /\ UNCHANGED << shared, user_message, current_hash, chunks, embeddings, sends, edits, limit,
                    ensure_doc, store_doc, ensure_result, embed_calls, index_writes, pre_collection,
                    prev_ensure, last_ensure, search_result, query_embed_calls,
                    prev_search, last_search >>
    /\ UNCHANGED << chunker, services, cached_system_prompt, response >>

ClearDelete(t) ==
    /\ pc[t] = "clear_delete"
    /\ clear_context_cache
    /\ index_writes' = [index_writes EXCEPT ![t] = @ + 1]
    /\ pc' = [pc EXCEPT ![t] = "store"]
    /\ \/ /\ collection' = CollectionDelete(collection, ids[t])
          /\ UNCHANGED << faults, store_fault >>
       \/ /\ faults < limit.faults
          /\ faults' = faults + 1
          /\ store_fault' = [store_fault EXCEPT ![t] = TRUE]
          /\ UNCHANGED collection
    /\ UNCHANGED retrieval
    /\ UNCHANGED << sp, embeddings_initialized, current_screenplay_hash,
                    last_screenplay_hash, query_embedding_cache, send_button,
                    user_message, current_hash, ids, chunks, embeddings, sends, edits, limit,
                    ensure_doc, store_doc, ensure_result, embed_calls, pre_collection,
                    prev_ensure, last_ensure, search_result, query_embed_calls,
                    prev_search, last_search >>
    /\ UNCHANGED << chunker, services, cached_system_prompt, response >>

(***************************************************************************)
(* AIService.store_screenplay_embeddings up to the return of               *)
(* create_embeddings.  The screenplay is the editor's live object, which   *)
(* the editor changes in place.                                            *)
(* create_embeddings returns [] on any failure of the gateway call.        *)
(***************************************************************************)
StoreEmbed(t) ==
    /\ pc[t] = "store"
    /\ store_doc' = [store_doc EXCEPT ![t] = IF embedding_ai_service THEN sp ELSE @]
    /\ IF ~embedding_ai_service
       THEN \* None has no store_screenplay_embeddings: the exception is caught
            /\ RebuildFails(t, "no_service")
            /\ UNCHANGED << chunks, embeddings, embed_calls, faults >>
       ELSE IF ~ContentOfDoc[sp] \/ ChunksOfDoc[sp] = <<>>
       THEN /\ RebuildFails(t, "empty")
            /\ UNCHANGED << chunks, embeddings, embed_calls, faults >>
       ELSE /\ chunks' = [chunks EXCEPT ![t] = ChunksOfDoc[sp]]
            /\ embed_calls' = [embed_calls EXCEPT ![t] = @ + 1]
            /\ \/ \* the gateway returns one vector per text
                  /\ embeddings' = [embeddings EXCEPT ![t] = Len(ChunksOfDoc[sp])]
                  /\ pc' = [pc EXCEPT ![t] = "add"]
                  /\ UNCHANGED << faults, embeddings_initialized, ensure_result, last_ensure >>
               \/ \* the gateway call fails: "Failed to create embeddings"
                  /\ faults < limit.faults
                  /\ faults' = faults + 1
                  /\ RebuildFails(t, "embed_failed")
                  /\ UNCHANGED embeddings
               \/ \* the gateway returns fewer vectors than texts
                  /\ faults < limit.faults
                  /\ faults' = faults + 1
                  /\ Len(ChunksOfDoc[sp]) >= 2
                  /\ embeddings' = [embeddings EXCEPT ![t] =
                                       Len(ChunksOfDoc[sp]) - 1]
                  /\ pc' = [pc EXCEPT ![t] = "add"]
                  /\ UNCHANGED << embeddings_initialized, ensure_result, last_ensure >>
    /\ UNCHANGED retrieval
    /\ UNCHANGED << sp, collection, current_screenplay_hash, last_screenplay_hash,
                    query_embedding_cache, send_button, user_message, current_hash, ids,
                    sends, edits, limit, ensure_doc, index_writes, pre_collection, store_fault,
                    prev_ensure, search_result, query_embed_calls, prev_search,
                    last_search >>
    /\ UNCHANGED << chunker, services, caches, response >>

(***************************************************************************)
(* collection.add of store_screenplay_embeddings.  Lists of unequal length *)
(* are rejected by the collection before anything is written.              *)
(***************************************************************************)
Add(t) ==
    /\ pc[t] = "add"
    /\ index_writes' = [index_writes EXCEPT ![t] = @ + 1]
    /\ IF embeddings[t] # Len(chunks[t])
       THEN /\ RebuildFails(t, "embed_short")
            /\ UNCHANGED << collection, faults, store_fault >>
       ELSE \/ /\ collection' = CollectionAdd(collection, chunks[t])
               /\ pc' = [pc EXCEPT ![t] = "finish"]
               /\ UNCHANGED << faults, store_fault, embeddings_initialized,
                               ensure_result, last_ensure >>
            \/ /\ faults < limit.faults
               /\ faults' = faults + 1
               /\ store_fault' = [store_fault EXCEPT ![t] = TRUE]
               /\ RebuildFails(t, "store_failed")
               /\ UNCHANGED collection
    /\ UNCHANGED retrieval
    /\ UNCHANGED << sp, current_screenplay_hash, last_screenplay_hash,
                    query_embedding_cache, send_button, user_message, current_hash, ids,
                    chunks, embeddings, sends, edits, limit, ensure_doc, store_doc, embed_calls,
                    pre_collection, prev_ensure, search_result, query_embed_calls,
                    prev_search, last_search >>
    /\ UNCHANGED << chunker, services, caches, response >>

\* a success that leaves the recorded fingerprint as it was
RecordedHashStale(t) == current_screenplay_hash

\* "self.current_screenplay_hash = current_hash"
RecordedHash(t) == current_hash[t]

(***************************************************************************)
(* The success branch of process_screenplay_embeddings_sync and of         *)
(* ensure_embeddings_up_to_date.                                           *)
(***************************************************************************)
Finish(t) ==
    /\ pc[t] = "finish"
    /\ embeddings_initialized' = TRUE
    /\ current_screenplay_hash' = RecordedHash(t)
    /\ update_screenplay_hash(current_hash[t])
    /\ pc' = [pc EXCEPT ![t] = "context"]
    /\ ensure_result' = [ensure_result EXCEPT ![t] = "rebuilt"]
    /\ last_ensure' = [doc |-> ensure_doc[t], ok |-> TRUE]
    /\ UNCHANGED retrieval
    /\ UNCHANGED << sp, collection, query_embedding_cache, send_button, user_message,
                    current_hash, ids, chunks, embeddings, counters, ensure_doc, store_doc,
                    embed_calls, index_writes, pre_collection, store_fault, prev_ensure,
                    search_result, query_embed_calls, prev_search, last_search >>
    /\ UNCHANGED << chunker, services, response >>

(***************************************************************************)
(* The end of get_ai_response: the completion is requested from            *)
(* self.embedding_ai_service.get_response, which hands the message to the  *)
(* panel's ai_service; None has no get_response, and the exception handler *)
(* posts the error message in place of a completion.                       *)
(***************************************************************************)
get_response(t) ==
    response' = [response EXCEPT ![t] =
                    IF embedding_ai_service THEN "completion" ELSE "error"]

(***************************************************************************)
(* get_ai_response after ensure_embeddings_up_to_date: the test of         *)
(* embeddings_initialized, and get_semantic_context ->                     *)
(* search_similar_scenes up to the cache lookup.                           *)
(***************************************************************************)
CacheKey(query) == PyHash(query)

\* a lookup under the key of another string than the one the entries are
\* stored under
CachedByOtherKey(query) == CacheKey(query \o query) \in DOMAIN query_embedding_cache

\* "if query_hash in self.query_embedding_cache"
Cached(query) == CacheKey(query) \in DOMAIN query_embedding_cache

Lookup(t) ==
    /\ pc[t] = "context"
    /\ query_embed_calls' = [query_embed_calls EXCEPT ![t] = 0]
    /\ situation' = [situation EXCEPT ![t] =
                         IF \E u \in Threads \ {t} : InRebuild(u) THEN "building"
                         ELSE IF ~embeddings_initialized THEN "unavailable"
                         ELSE "ready"]
    /\ IF ~(embedding_ai_service /\ embeddings_initialized)
       THEN \* semantic_context = ""
            /\ pc' = [pc EXCEPT ![t] = "posted"]
            /\ get_response(t)
            /\ search_result' = [search_result EXCEPT ![t] = "none"]
            /\ prev_search' = [prev_search EXCEPT ![t] = NoSearch]
            /\ UNCHANGED << query_embeddings, n_results >>
       ELSE \* get_semantic_context(user_message, n_results)
            /\ \E k \in limit.ks : n_results' = [n_results EXCEPT ![t] = k]
            /\ prev_search' = [prev_search EXCEPT ![t] =
                                  IF \E u \in Threads \ {t} : InSearch(u) THEN NoSearch
                                  ELSE last_search]
            /\ IF Cached(user_message[t])
               THEN \* query_embeddings = self.query_embedding_cache[query_hash]
                    /\ pc' = [pc EXCEPT ![t] = "query"]
                    /\ UNCHANGED response
                    /\ search_result' = [search_result EXCEPT ![t] = "hit"]
                    /\ query_embeddings' =
                           [query_embeddings EXCEPT
                               ![t] = query_embedding_cache[CacheKey(user_message[t])]]
               ELSE /\ pc' = [pc EXCEPT ![t] = "query_embed"]
                    /\ search_result' = [search_result EXCEPT ![t] = "miss"]
                    /\ UNCHANGED << query_embeddings, response >>
    /\ UNCHANGED << search_results, semantic_context >>
    /\ UNCHANGED << shared, user_message, current_hash, ids, chunks, embeddings, counters,
                    ensure_doc, store_doc, ensure_result, embed_calls, index_writes, pre_collection,
                    store_fault, prev_ensure, last_ensure, last_search >>
    /\ UNCHANGED << chunker, services, caches >>

(***************************************************************************)
(* search_similar_scenes: create_embeddings([query]) on a cache miss.      *)
(***************************************************************************)
\* an assignment that drops the entries of the other queries
CachePutAlone(cache, query, vectors) == CacheKey(query) :> vectors

\* "self.query_embedding_cache[query_hash] = query_embeddings"
CachePut(cache, query, vectors) ==
    (CacheKey(query) :> vectors) @@ cache

\* a failed attempt that stores the empty list it got from create_embeddings
CacheEmptyVector(cache, query) == CachePut(cache, query, <<>>)

\* "if query_embeddings:" is false for the [] of a failed create_embeddings
CacheAfterFailure(cache, query) == cache

QueryEmbed(t) ==
    /\ pc[t] = "query_embed"
    /\ query_embed_calls' = [query_embed_calls EXCEPT ![t] = @ + 1]
    /\ \/ \* "Cache the embedding for future use"
          /\ query_embedding_cache' =
                 CachePut(query_embedding_cache, user_message[t],
                          << EmbeddingOf(user_message[t]) >>)
          /\ query_embeddings' =
                 [query_embeddings EXCEPT ![t] = << EmbeddingOf(user_message[t]) >>]
          /\ search_result' = [search_result EXCEPT ![t] = "miss_ok"]
          /\ pc' = [pc EXCEPT ![t] = "query"]
          /\ UNCHANGED << faults, last_search, response >>
       \/ \* create_embeddings returns []: "Failed to create query embedding", return None
          /\ faults < limit.faults
          /\ faults' = faults + 1
          /\ search_result' = [search_result EXCEPT ![t] = "miss_fail"]
          /\ last_search' = [query |-> user_message[t], result |-> "miss_fail"]
          /\ pc' = [pc EXCEPT ![t] = "posted"]
          /\ get_response(t)
          /\ query_embedding_cache' =
                 CacheAfterFailure(query_embedding_cache, user_message[t])
          /\ query_embeddings' = [query_embeddings EXCEPT ![t] = <<>>]
    /\ UNCHANGED << search_results, semantic_context, situation, n_results >>
    /\ UNCHANGED << sp, collection, embeddings_initialized, current_screenplay_hash,
                    last_screenplay_hash, send_button, user_message, current_hash, ids,
                    chunks, embeddings, sends, edits, limit, ensure_doc, store_doc, ensure_result,
                    embed_calls, index_writes, pre_collection, store_fault, prev_ensure,
                    last_ensure, prev_search >>
    /\ UNCHANGED << chunker, services, caches >>

(***************************************************************************)
(* search_similar_scenes: collection.query; an exception returns None.     *)
(* get_ai_response then posts handle_ai_response.                          *)
(***************************************************************************)
Query(t) ==
    /\ pc[t] = "query"
    /\ pc' = [pc EXCEPT ![t] = "posted"]
    /\ get_response(t)
    /\ last_search' = [query |-> user_message[t],
                        result |-> IF CacheKey(user_message[t]) \in DOMAIN query_embedding_cache
                                   THEN search_result[t]
                                   ELSE "cleared"]
    /\ IF n_results[t] < 1
       THEN \* collection.query rejects the number: the exception is caught, return None
            /\ search_results' = [search_results EXCEPT ![t] = InvalidNumber(n_results[t])]
            /\ UNCHANGED faults
       ELSE \/ \* results = self.collection.query(...)
               /\ \E table \in limit.distances :
                      search_results' =
                          [search_results EXCEPT
                              ![t] = [ok |-> TRUE,
                                      rows |-> CollectionQuery(collection, n_results[t],
                                                               table)]]
               /\ UNCHANGED faults
            \/ \* collection.query raises: "Error searching similar scenes", return None
               /\ faults < limit.faults
               /\ faults' = faults + 1
               /\ search_results' = [search_results EXCEPT ![t] = NoResults]
    /\ semantic_context' =
           [semantic_context EXCEPT ![t] = get_semantic_context(search_results'[t])]
    /\ UNCHANGED << query_embeddings, situation, n_results >>
    /\ UNCHANGED << shared, user_message, current_hash, ids, chunks, embeddings, sends,
                    edits, limit, ensure_doc, store_doc, ensure_result, embed_calls, index_writes,
                    pre_collection, store_fault, prev_ensure, last_ensure, search_result,
                    query_embed_calls, prev_search >>
    /\ UNCHANGED << chunker, services, caches >>

(***************************************************************************)
(* The rest of get_ai_response (get_response of the completion service,   *)
(* wx.CallAfter) touches none of this state.  AIAssistantPanel.            *)
(* handle_ai_response runs in the main thread; the worker thread has ended *)
(* and its locals are gone.                                                *)
(***************************************************************************)
\* a handler that shows the message and leaves the button as it is
handle_ai_response_disabled(t) ==
    /\ pc[t] = "posted"
    /\ send_button' = send_button
    /\ pc' = [pc EXCEPT ![t] = "idle"]
    /\ user_message' = [user_message EXCEPT ![t] = <<>>]
    /\ current_hash' = [current_hash EXCEPT ![t] = NoneHash]
    /\ ids' = [ids EXCEPT ![t] = {}]
    /\ chunks' = [chunks EXCEPT ![t] = <<>>]
    /\ embeddings' = [embeddings EXCEPT ![t] = 0]
    /\ query_embeddings' = [query_embeddings EXCEPT ![t] = <<>>]
    /\ search_results' = [search_results EXCEPT ![t] = NoResults]
    /\ semantic_context' = [semantic_context EXCEPT ![t] = <<>>]
    /\ situation' = [situation EXCEPT ![t] = "none"]
    /\ n_results' = [n_results EXCEPT ![t] = NResults]
    /\ ensure_doc' = [ensure_doc EXCEPT ![t] = NoScreenplay]
    /\ store_doc' = [store_doc EXCEPT ![t] = NoScreenplay]
    /\ ensure_result' = [ensure_result EXCEPT ![t] = "none"]
    /\ embed_calls' = [embed_calls EXCEPT ![t] = 0]
    /\ index_writes' = [index_writes EXCEPT ![t] = 0]
    /\ pre_collection' = [pre_collection EXCEPT ![t] = {}]
    /\ store_fault' = [store_fault EXCEPT ![t] = FALSE]
    /\ prev_ensure' = [prev_ensure EXCEPT ![t] = NoEnsure]
    /\ search_result' = [search_result EXCEPT ![t] = "none"]
    /\ query_embed_calls' = [query_embed_calls EXCEPT ![t] = 0]
    /\ prev_search' = [prev_search EXCEPT ![t] = NoSearch]
    /\ response' = [response EXCEPT ![t] = "none"]
    /\ UNCHANGED << sp, collection, embeddings_initialized, current_screenplay_hash,
                    last_screenplay_hash, query_embedding_cache, counters, last_ensure,
                    last_search >>
    /\ UNCHANGED << chunker, services, caches >>

handle_ai_response(t) ==
    /\ pc[t] = "posted"
    /\ send_button' = TRUE
    /\ pc' = [pc EXCEPT ![t] = "idle"]
    /\ user_message' = [user_message EXCEPT ![t] = <<>>]
    /\ current_hash' = [current_hash EXCEPT ![t] = NoneHash]
    /\ ids' = [ids EXCEPT ![t] = {}]
    /\ chunks' = [chunks EXCEPT ![t] = <<>>]
    /\ embeddings' = [embeddings EXCEPT ![t] = 0]
    /\ query_embeddings' = [query_embeddings EXCEPT ![t] = <<>>]
    /\ search_results' = [search_results EXCEPT ![t] = NoResults]
    /\ semantic_context' = [semantic_context EXCEPT ![t] = <<>>]
    /\ situation' = [situation EXCEPT ![t] = "none"]
    /\ n_results' = [n_results EXCEPT ![t] = NResults]
    /\ ensure_doc' = [ensure_doc EXCEPT ![t] = NoScreenplay]
    /\ store_doc' = [store_doc EXCEPT ![t] = NoScreenplay]
    /\ ensure_result' = [ensure_result EXCEPT ![t] = "none"]
    /\ embed_calls' = [embed_calls EXCEPT ![t] = 0]
    /\ index_writes' = [index_writes EXCEPT ![t] = 0]
    /\ pre_collection' = [pre_collection EXCEPT ![t] = {}]
    /\ store_fault' = [store_fault EXCEPT ![t] = FALSE]
    /\ prev_ensure' = [prev_ensure EXCEPT ![t] = NoEnsure]
    /\ search_result' = [search_result EXCEPT ![t] = "none"]
    /\ query_embed_calls' = [query_embed_calls EXCEPT ![t] = 0]
    /\ prev_search' = [prev_search EXCEPT ![t] = NoSearch]
    /\ response' = [response EXCEPT ![t] = "none"]
    /\ UNCHANGED << sp, collection, embeddings_initialized, current_screenplay_hash,
                    last_screenplay_hash, query_embedding_cache, counters, last_ensure,
                    last_search >>
    /\ UNCHANGED << chunker, services, caches >>

(***************************************************************************)
(* AIService.clear_query_cache                                             *)
(***************************************************************************)
\* history: the last search once a clear has run: a search whose query was
\* cached is remembered as "cleared", any other is forgotten
Dropped(search) ==
    IF search.result \in {"hit", "miss_ok", "cleared"}
    THEN [query |-> search.query, result |-> "cleared"]
    ELSE NoSearch

\* a clear that keeps the entries
clear_nothing ==
    /\ query_embedding_cache' = query_embedding_cache
    /\ last_search' = Dropped(last_search)
    /\ UNCHANGED retrieval
    /\ UNCHANGED << sp, collection, embeddings_initialized, current_screenplay_hash,
                    last_screenplay_hash, send_button, locals, counters, ensure_doc, store_doc,
                    ensure_result, embed_calls, index_writes, pre_collection, store_fault,
                    prev_ensure, last_ensure, search_result, query_embed_calls,
                    prev_search >>
    /\ UNCHANGED << chunker, services, caches, response >>

clear_query_cache ==
    /\ query_embedding_cache' = <<>>
    /\ last_search' = Dropped(last_search)
    /\ search_result' = [t \in Threads |->
                             IF search_result[t] = "miss_ok" /\ pc[t] = "query"
                             THEN "cleared" ELSE search_result[t]]
    /\ UNCHANGED retrieval
    /\ UNCHANGED << sp, collection, embeddings_initialized, current_screenplay_hash,
                    last_screenplay_hash, send_button, locals, counters, ensure_doc, store_doc,
                    ensure_result, embed_calls, index_writes, pre_collection, store_fault,
                    prev_ensure, last_ensure, query_embed_calls, prev_search >>
    /\ UNCHANGED << chunker, services, caches, response >>

(***************************************************************************)
(* AIService.get_response called by a client that hands it no completion   *)
(* service: it searches the index for the message (search_similar_scenes,  *)
(* with the query cache), builds the system prompt once and keeps the      *)
(* document context it sent.                                               *)
(***************************************************************************)
DirectContext == "context"

get_response_direct(query, context) ==
    /\ embedding_ai_service
    /\ query \in limit.queries
    /\ IF Cached(query)
       THEN /\ last_search' = [query |-> query, result |-> "hit"]
            /\ UNCHANGED << query_embedding_cache, faults >>
       ELSE \/ /\ query_embedding_cache' =
                      CachePut(query_embedding_cache, query, << EmbeddingOf(query) >>)
               /\ last_search' = [query |-> query, result |-> "miss_ok"]
               /\ UNCHANGED faults
            \/ /\ faults < limit.faults
               /\ faults' = faults + 1
               /\ last_search' = [query |-> query, result |-> "miss_fail"]
               /\ UNCHANGED query_embedding_cache
    /\ cached_system_prompt' =
           IF cached_system_prompt = NotCached THEN "prompt" ELSE cached_system_prompt
    /\ cached_document_context' = context
    /\ UNCHANGED retrieval
    /\ UNCHANGED << sp, collection, embeddings_initialized, current_screenplay_hash,
                    last_screenplay_hash, send_button, locals, sends, edits, limit,
                    ensure_doc, store_doc, ensure_result, embed_calls, index_writes,
                    pre_collection, store_fault, prev_ensure, last_ensure, search_result,
                    query_embed_calls, prev_search >>
    /\ UNCHANGED << chunker, services, cached_semantic_context, response >>

Next ==
    \/ EditDocument
    \/ \E t \in Threads, message \in Queries : OnSend(t, message)
    \/ \E t \in Threads : EnsureStart(t)
    \/ \E t \in Threads : ClearGet(t)
    \/ \E t \in Threads : ClearDelete(t)
    \/ \E t \in Threads : StoreEmbed(t)
    \/ \E t \in Threads : Add(t)
    \/ \E t \in Threads : Finish(t)
    \/ \E t \in Threads : Lookup(t)
    \/ \E t \in Threads : QueryEmbed(t)
    \/ \E t \in Threads : Query(t)
    \/ \E t \in Threads : handle_ai_response(t)
    \/ clear_query_cache

Spec == Init /\ [][Next]_vars

SpecSeq == InitSeq /\ [][Next]_vars

SpecFind == InitFind /\ [][Next]_vars

SpecLong == InitLong /\ [][Next]_vars

SpecChunk == InitChunk /\ [][Next]_vars

\* a process that starts on the index an earlier process left on disk, or on none
InitRestart ==
    /\ limit = [threads |-> {1}, sends |-> ParSends, edits |-> ParEdits,
                faults |-> ParFaults, docs |-> {"one", "three"},
                queries |-> {QueryRain}, distances |-> {"tied"},
                persisted |-> {{}, PersistedBy("one"), PersistedBy("three")},
                ks |-> {NResults},
                ai |-> {TRUE}, embedding_ai |-> {TRUE},
                chunkers |-> {MissingScreenplay}]
    /\ Start

SpecRestart == InitRestart /\ [][Next]_vars

\* one request at a time; get_semantic_context is called with any number of results
InitNumber ==
    /\ limit = [threads |-> {1}, sends |-> ParSends, edits |-> ParEdits,
                faults |-> ParFaults, docs |-> {"one", "four"},
                queries |-> {QueryRain}, distances |-> {"spread"},
                persisted |-> {{}}, ks |-> {0, 1, NResults},
                ai |-> {TRUE}, embedding_ai |-> {TRUE},
                chunkers |-> {MissingScreenplay}]
    /\ Start

SpecNumber == InitNumber /\ [][Next]_vars

\* one request at a time, on screenplays whose scenes repeat or come after lines
\* without a heading, and on one text under three divisions into typed lines
InitScenes ==
    /\ limit = [threads |-> {1}, sends |-> ParSends, edits |-> ParEdits,
                faults |-> ParFaults, docs |-> {"twins", "preamble", "blank", "plain", "retagged",
                                            "reflowed"},
                queries |-> {QueryRain}, distances |-> {"tied"},
                persisted |-> {{}}, ks |-> {NResults},
                ai |-> {TRUE}, embedding_ai |-> {TRUE},
                chunkers |-> {MissingScreenplay}]
    /\ Start

SpecScenes == InitScenes /\ [][Next]_vars

\* one request at a time, on screenplays with more than 1000 characters in their
\* first three lines
InitWide ==
    /\ limit = [threads |-> {1}, sends |-> ParSends, edits |-> ParEdits,
                faults |-> ParFaults,
                docs |-> {"wide_a", "wide_b", "wide_c", "wide_d", "plain"},
                queries |-> {QueryRain}, distances |-> {"tied"},
                persisted |-> {{}}, ks |-> {NResults},
                ai |-> {TRUE}, embedding_ai |-> {TRUE},
                chunkers |-> {MissingScreenplay}]
    /\ Start

SpecWide == InitWide /\ [][Next]_vars

\* the panel with or without its services, next to a client that calls
\* AIService.get_response itself
NextDirect ==
    \/ Next
    \/ \E query \in Queries : get_response_direct(query, DirectContext)

\* one request at a time; either service may have failed to initialize
InitService ==
    /\ limit = [threads |-> {1}, sends |-> ParSends, edits |-> ParEdits,
                faults |-> ParFaults, docs |-> {"one", "two"},
                queries |-> {QueryRain}, distances |-> {"tied"},
                persisted |-> {{}}, ks |-> {NResults},
                ai |-> BOOLEAN, embedding_ai |-> BOOLEAN,
                chunkers |-> {MissingScreenplay}]
    /\ Start

SpecService == InitService /\ [][NextDirect]_vars

\* ScreenplayChunker.chunk_by_scene
chunk_by_scene ==
    /\ ~chunker.called
    /\ chunker' = [chunker EXCEPT !.called = TRUE, !.chunks = ChunksByScene(chunker.sp)]
    /\ UNCHANGED << shared, locals, retrieval, counters, history, services, caches,
                    response >>

\* a chunker made for any of the screenplays, and its one call
NextChunker == chunk_by_scene

InitChunker ==
    /\ limit = [threads |-> {}, sends |-> 0, edits |-> 0, faults |-> 0, docs |-> {},
                queries |-> {}, distances |-> {}, persisted |-> {{}}, ks |-> {},
                ai |-> {TRUE}, embedding_ai |-> {TRUE},
                chunkers |-> ChunkerScreenplays]
    /\ Start

SpecChunker == InitChunker /\ [][NextChunker]_vars

\* the steps of the thread t that OnSend started, and of the handler it posts
Worker(t) ==
    \/ EnsureStart(t) \/ ClearGet(t) \/ ClearDelete(t) \/ StoreEmbed(t) \/ Add(t)
    \/ Finish(t) \/ Lookup(t) \/ QueryEmbed(t) \/ Query(t) \/ handle_ai_response(t)

\* one request at a time; a thread that was started runs on to its end (the
\* interpreter schedules every thread) and the event loop runs the handlers posted
\* with wx.CallAfter
InitRetry ==
    /\ limit = [threads |-> {1}, sends |-> MaxSends, edits |-> ParEdits,
                faults |-> MaxFaults, docs |-> {"one", "two"},
                queries |-> {QueryRain}, distances |-> {"tied"},
                persisted |-> {{}}, ks |-> {NResults},
                ai |-> {TRUE}, embedding_ai |-> {TRUE},
                chunkers |-> {MissingScreenplay}]
    /\ Start

SpecRetry == InitRetry /\ [][Next]_vars /\ \A t \in Threads : WF_vars(Worker(t))

\* threads in parallel, with or without the services, each running on to its end
InitSend ==
    /\ limit = [threads |-> Threads, sends |-> ParSends, edits |-> ParEdits,
                faults |-> ParFaults, docs |-> {"one", "short"},
                queries |-> {QueryRain}, distances |-> {"tied"},
                persisted |-> {{}}, ks |-> {NResults},
                ai |-> BOOLEAN, embedding_ai |-> BOOLEAN,
                chunkers |-> {MissingScreenplay}]
    /\ Start

SpecSend == InitSend /\ [][Next]_vars /\ \A t \in Threads : WF_vars(Worker(t))

(***************************************************************************)
(* Properties.                                                             *)
(***************************************************************************)
Finished(t) ==
    ensure_result[t] \in {"rebuilt", "empty", "embed_failed", "embed_short", "store_failed"}

\* C1: when the Embedding Gateway fails, or returns fewer vectors than there are
\* chunks, during a rebuild, the Vector Index holds after the call exactly the
\* entries it held before it.
C1_FailedRebuildAtomic ==
    \A t \in Threads :
        ensure_result[t] \in {"embed_failed", "embed_short"}
            => collection = pre_collection[t]

\* the thread's rebuild has deleted the stored entries and not yet inserted the new
\* chunks, and the index is empty
ClearedNotRepopulated(u) ==
    /\ pc[u] \in {"store", "add"}
    /\ ids[u] # {}
    /\ collection = {}

\* C2: a similarity query waits for a rebuild in flight: no query reads the Vector
\* Index while it is empty between the clear and the insert of another thread's
\* rebuild.
C2_QueryWaitsForRebuild ==
    [][\A t \in Threads :
          (pc[t] = "query" /\ pc'[t] # "query")
              => \A u \in Threads \ {t} : ~ClearedNotRepopulated(u)]_vars

\* C3: two threads that call ensure_embeddings_up_to_date concurrently with the
\* same new fingerprint perform exactly one rebuild: they are never both
\* rebuilding for that fingerprint.
C3_OneRebuildPerFingerprint ==
    \A t, u \in Threads :
        (t # u /\ InRebuild(t) /\ InRebuild(u)) => current_hash[t] # current_hash[u]

\* C4: after every rebuild that reports success, the Vector Index holds exactly
\* as many entries as the new snapshot has chunks, under the ids of those chunks
\* (no id of the previous fingerprint remains).
C4_FullReplaceOnChange ==
    \A t \in Threads :
        pc[t] = "finish"
            => /\ Cardinality(collection) = Len(chunks[t])
               /\ StoredIds(collection) = {chunks[t][i].id : i \in 1..Len(chunks[t])}

\* the thread's ensure call came right after a completed ensure call for the same,
\* unchanged snapshot
SecondInSuccession(t) ==
    /\ ensure_result[t] # "none"
    /\ ensure_doc[t] # NoScreenplay
    /\ prev_ensure[t].doc = ensure_doc[t]

\* C5 as stated: for any snapshot, the second of two ensure calls in succession
\* with that unchanged snapshot makes no Embedding Gateway call and no Vector
\* Index write.
C5_IdempotentRebuild_Original ==
    \A t \in Threads :
        SecondInSuccession(t) => embed_calls[t] = 0 /\ index_writes[t] = 0

\* C5 amended: when the first of two ensure calls in succession with an unchanged
\* snapshot returned success, the second makes no Embedding Gateway call and no
\* Vector Index write.
C5_IdempotentRebuild ==
    \A t \in Threads :
        (SecondInSuccession(t) /\ prev_ensure[t].ok)
            => /\ ensure_result[t] = "skipped"
               /\ embed_calls[t] = 0
               /\ index_writes[t] = 0

C5_Witness ==
    \E t \in Threads :
        /\ SecondInSuccession(t)
        /\ prev_ensure[t].ok
        /\ ensure_result[t] = "skipped"
        /\ pc[t] = "posted"
        /\ collection # {}

\* C6: ensure_embeddings_up_to_date returns success without rebuilding only when
\* the index is ready.
C6_SkipOnlyWhenReady ==
    \A t \in Threads : ensure_result[t] = "skipped" => embeddings_initialized

\* C7: at no time are two rebuilds (clear, embed, insert) in progress.
C7_RebuildsTotallyOrdered ==
    \A t, u \in Threads : t # u => ~(InRebuild(t) /\ InRebuild(u))

\* C8: a rebuild in which a Vector Index call failed leaves no partial state: the
\* index holds either exactly what it held before the rebuild or exactly the new
\* chunks.
C8_NoPartialStateOnStoreFailure ==
    \A t \in Threads :
        (store_fault[t] /\ Finished(t))
            => \/ collection = pre_collection[t]
               \/ collection = EntriesOf(chunks[t])

\* C9: once a rebuild has succeeded, a later failure in the embedding/index path
\* leaves ready = true and the index as it was.
C9_FailureKeepsPreviousState ==
    \A t \in Threads :
        (/\ current_screenplay_hash # NoneHash
         /\ ensure_result[t] \in {"embed_failed", "embed_short", "store_failed"})
            => /\ embeddings_initialized
               /\ collection = pre_collection[t]

\* the thread's search came right after a completed search for the same query that
\* found the query not cached
SecondSearch(t) ==
    /\ prev_search[t].query = user_message[t]
    /\ prev_search[t].result \in {"miss_ok", "miss_fail"}

\* C10 as stated: two searches with the same query make exactly one Embedding
\* Gateway call: the second makes none.
C10_QueryCacheHit_Original ==
    \A t \in Threads : SecondSearch(t) => query_embed_calls[t] = 0

\* C10 amended: when the Embedding Gateway call of the first of two searches in
\* succession with the same query succeeded, and the cache was not cleared in
\* between, the second makes none; a search whose query is cached makes no
\* Embedding Gateway call and does not grow the cache.
C10_QueryCacheHit ==
    /\ [](\A t \in Threads :
            /\ (SecondSearch(t) /\ prev_search[t].result = "miss_ok")
                   => search_result[t] = "hit"
            /\ search_result[t] = "hit" => query_embed_calls[t] = 0)
    /\ [][\A t \in Threads :
            (search_result'[t] = "hit" /\ pc'[t] # pc[t])
                => DOMAIN query_embedding_cache' = DOMAIN query_embedding_cache]_vars

C10_Witness ==
    \E t \in Threads :
        /\ SecondSearch(t)
        /\ prev_search[t].result = "miss_ok"
        /\ search_result[t] = "hit"
        /\ query_embed_calls[t] = 0
        /\ pc[t] = "posted"

\* the thread's search came right after a completed search for the same query that
\* ended as given
SearchAfter(t, result) ==
    /\ search_result[t] # "none"
    /\ prev_search[t].query = user_message[t]
    /\ prev_search[t].result = result

\* the search makes its own Embedding Gateway call: it is no cache hit, and has
\* made one call when it returns
AttemptsEmbedding(t) ==
    /\ search_result[t] # "hit"
    /\ pc[t] = "posted" => query_embed_calls[t] = 1

\* C11: a search whose Embedding Gateway call fails adds nothing to the query
\* cache; no empty vector list is ever cached; and the search that follows a
\* failed search for the same query calls the Embedding Gateway again.
C11_FailedEmbeddingNotCached ==
    /\ [](\A k \in DOMAIN query_embedding_cache : query_embedding_cache[k] # <<>>)
    /\ [](\A t \in Threads : SearchAfter(t, "miss_fail") => AttemptsEmbedding(t))
    /\ [][\A t \in Threads :
            (search_result'[t] = "miss_fail" /\ search_result[t] # "miss_fail")
                => query_embedding_cache' = query_embedding_cache]_vars

C11_Witness ==
    \E t \in Threads :
        /\ SearchAfter(t, "miss_fail")
        /\ search_result[t] = "miss_ok"
        /\ query_embed_calls[t] = 1
        /\ pc[t] = "posted"
        /\ Cached(user_message[t])

\* C12: every clear_query_cache leaves the query cache with zero entries, and
\* the search that follows for a query whose vector the clear dropped calls the
\* Embedding Gateway again and caches the vector again.
C12_ClearEmptiesQueryCache ==
    /\ [][clear_query_cache => query_embedding_cache' = <<>>]_vars
    /\ [](\A t \in Threads : SearchAfter(t, "cleared") => AttemptsEmbedding(t))
    /\ [][\A t \in Threads :
            (/\ SearchAfter(t, "cleared")
             /\ search_result[t] = "miss"
             /\ search_result'[t] = "miss_ok")
                => CacheKey(user_message[t]) \in DOMAIN query_embedding_cache']_vars

C12_Witness ==
    \E t \in Threads :
        /\ SearchAfter(t, "cleared")
        /\ search_result[t] = "miss_ok"
        /\ query_embed_calls[t] = 1
        /\ pc[t] = "posted"
        /\ Cached(user_message[t])

\* C13: a step that is no clear_query_cache keeps every entry of the query
\* cache, under its key and with its vector: the keys only grow, and no search,
\* rebuild or failure removes or replaces an entry.
C13_EntriesNeverExpire ==
    [][clear_query_cache
       \/ \A k \in DOMAIN query_embedding_cache :
              /\ k \in DOMAIN query_embedding_cache'
              /\ query_embedding_cache'[k] = query_embedding_cache[k]]_vars

C13_Witness ==
    /\ Cardinality(DOMAIN query_embedding_cache) = 2
    /\ \E t \in Threads :
           /\ ensure_result[t] = "rebuilt"
           /\ search_result[t] = "hit"
           /\ pc[t] = "posted"

(***************************************************************************)
(* C14: a lookup returns a cached vector only if that vector was computed  *)
(* for exactly the string looked up (case-sensitive, no normalization):    *)
(* whenever a search took its vector from the cache, the vector is the one *)
(* of the thread's own query string, so two distinct query strings never   *)
(* share a cache entry.                                                    *)
(***************************************************************************)
C14_ExactStringEquality ==
    \A t \in Threads :
        (search_result[t] = "hit" /\ pc[t] \in {"query", "posted"})
            => query_embeddings[t] = << EmbeddingOf(user_message[t]) >>

(***************************************************************************)
(* C15: every rebuild of the index performed by                            *)
(* ensure_embeddings_up_to_date is accompanied by a clear of the query     *)
(* cache: when the call returns from a rebuild that succeeded, the query   *)
(* cache holds no entry.                                                   *)
(***************************************************************************)
C15_RebuildClearsQueryCache ==
    \A t \in Threads :
        (pc[t] = "context" /\ ensure_result[t] = "rebuilt") => query_embedding_cache = <<>>

\* a successful retrieve: search_similar_scenes returned the rows of the index and
\* get_semantic_context has built the context
Retrieved(t) == pc[t] = "posted" /\ search_results[t].ok

\* the results of the context, without the header
ContextResults(t) == Tail(semantic_context[t])

(***************************************************************************)
(* C16: a successful retrieve with k = NResults returns at most k results  *)
(* (one per row of the index), similarity[i] >= similarity[i+1] for every  *)
(* adjacent pair, and the results stand in the order the Vector Index      *)
(* returned their rows, ties included.                                     *)
(***************************************************************************)
C16_BoundedOrderedResults ==
    \A t \in Threads :
        Retrieved(t) =>
            LET rows == search_results[t].rows
                res == ContextResults(t)
            IN  /\ Len(res) <= NResults
                /\ Len(res) = Len(rows)
                /\ \A i \in 1..(Len(res) - 1) : res[i].similarity >= res[i + 1].similarity
                /\ \A i \in 1..Len(res) :
                       /\ res[i].text = ContextText(rows[i].document)
                       /\ res[i].scene_info = SceneInfo(rows[i].metadata)

\* three results from an index of more entries, the first two at one distance
C16_Witness ==
    \E t \in Threads :
        /\ Retrieved(t)
        /\ Cardinality(collection) > NResults
        /\ Len(ContextResults(t)) = NResults
        /\ ContextResults(t)[1].similarity = ContextResults(t)[2].similarity
        /\ ContextResults(t)[1].scene_info # ContextResults(t)[2].scene_info

(***************************************************************************)
(* C17: for every distance within the metric range [0, 2] the similarity   *)
(* 1 - distance/2 lies in [0, 1], and of two results with distances in     *)
(* that range the one with the lower distance has the higher similarity.   *)
(* (Hundredths: distances 0..200, similarities 0..100.)                    *)
(***************************************************************************)
MetricRange == 0..200

C17_SimilarityDomain ==
    \A t \in Threads :
        Retrieved(t) =>
            LET rows == search_results[t].rows
                res == ContextResults(t)
            IN  /\ \A i \in 1..Len(rows) :
                       rows[i].distance \in MetricRange => res[i].similarity \in 0..100
                /\ \A i, j \in 1..Len(rows) :
                       (/\ rows[i].distance \in MetricRange
                        /\ rows[j].distance \in MetricRange
                        /\ rows[i].distance < rows[j].distance)
                           => res[i].similarity > res[j].similarity

\* results at the distances 0.0 and 1.5: similarities 1.0 and 0.25
C17_Witness ==
    \E t \in Threads :
        /\ Retrieved(t)
        /\ \E i, j \in 1..Len(search_results[t].rows) :
               /\ search_results[t].rows[i].distance = 0
               /\ search_results[t].rows[j].distance = 150
               /\ ContextResults(t)[i].similarity = 100
               /\ ContextResults(t)[j].similarity = 25

(***************************************************************************)
(* C18: whatever distance the Vector Index returns, the similarity shown   *)
(* for a result is never below 0 and never above 1.                        *)
(***************************************************************************)
C18_SimilarityClamped ==
    \A t \in Threads :
        Retrieved(t) =>
            \A i \in 1..Len(ContextResults(t)) : ContextResults(t)[i].similarity \in 0..100

\* what the caller was told, by the state of the index when it asked for context:
\* a rebuild of another thread in flight, no index ready, or a search that
\* succeeded with zero matches
Outcome(t) ==
    IF situation[t] = "building" THEN "index is being built"
    ELSE IF situation[t] = "unavailable" THEN "index unavailable"
    ELSE IF search_results[t].ok /\ search_results[t].rows = <<>>
         THEN "no relevant matches found"
    ELSE "other"

(***************************************************************************)
(* C19: the caller-visible outcomes 'index is being built', 'index         *)
(* unavailable' and 'no relevant matches found' are never the same value:  *)
(* two requests that ended in two different of these outcomes were given   *)
(* different semantic contexts.                                            *)
(***************************************************************************)
C19_OutcomesNeverCollapsed ==
    \A t, u \in Threads :
        (/\ pc[t] = "posted" /\ pc[u] = "posted"
         /\ Outcome(t) # "other" /\ Outcome(u) # "other"
         /\ Outcome(t) # Outcome(u))
            => semantic_context[t] # semantic_context[u]

\* two snapshots with the same number of lines and the same text in each of
\* their first 50 lines
SamePrefix(d, e) ==
    /\ Len(DocLines(d)) = Len(DocLines(e))
    /\ \A i \in 1..Len(DocLines(d)) :
           i <= HashPrefixLines => DocLines(d)[i].text = DocLines(e)[i].text

(***************************************************************************)
(* C20: any two snapshots with identical text in their first 50 lines and  *)
(* identical total line count produce the same fingerprint, even if they   *)
(* differ beyond line 50; equal snapshots yield equal fingerprints.  For   *)
(* the snapshot a request has fingerprinted: every snapshot with the same  *)
(* prefix and line count has its fingerprint, and a request made after a   *)
(* successful one on such a snapshot finds the screenplay unchanged.       *)
(***************************************************************************)
C20_FingerprintStability ==
    \A t \in Threads :
        ensure_doc[t] # NoScreenplay =>
            /\ \A d \in limit.docs :
                   SamePrefix(d, ensure_doc[t]) => HashOfDoc[d] = HashOfDoc[ensure_doc[t]]
            /\ (/\ pc[t] = "context"
                /\ prev_ensure[t].ok
                /\ prev_ensure[t].doc # NoScreenplay
                /\ SamePrefix(prev_ensure[t].doc, ensure_doc[t]))
                   => ensure_result[t] = "skipped"

\* the screenplay was changed beyond line 50 only, and the request skipped the rebuild
C20_Witness ==
    \E t \in Threads :
        /\ pc[t] = "context"
        /\ ensure_result[t] = "skipped"
        /\ prev_ensure[t].ok
        /\ prev_ensure[t].doc \notin {NoScreenplay, ensure_doc[t]}
        /\ SamePrefix(prev_ensure[t].doc, ensure_doc[t])
        /\ Len(DocLines(ensure_doc[t])) > HashPrefixLines
        /\ DocLines(prev_ensure[t].doc) # DocLines(ensure_doc[t])
\* the step of ensure_embeddings_up_to_date that reads a snapshot it cannot read
UnreadableEnsure(t) == pc[t] = "ensure" /\ pc'[t] # "ensure" /\ sp = NoScreenplay

\* C21 as stated: on a snapshot that cannot be read ensureUpToDate does not skip but
\* makes a rebuild attempt.
C21_UnreadableRebuilds ==
    [][\A t \in Threads : UnreadableEnsure(t) => pc'[t] = "clear_get"]_vars

\* C21, amended: on a snapshot that cannot be read ensureUpToDate does not skip and
\* makes no rebuild attempt: it returns failure at once, with no call to the
\* Embedding Gateway or the Vector Index, and leaves the index, the ready flag and
\* the recorded fingerprint as they were.
C21_UnreadableFailsAtOnce ==
    [][\A t \in Threads :
          UnreadableEnsure(t) =>
              /\ pc'[t] = "context"
              /\ ensure_result'[t] = "no_screenplay"
              /\ last_ensure' = [doc |-> NoScreenplay, ok |-> FALSE]
              /\ embed_calls'[t] = 0 /\ index_writes'[t] = 0
              /\ UNCHANGED << collection, embeddings_initialized,
                              current_screenplay_hash, last_screenplay_hash >>]_vars

\* an ensure call on an unreadable snapshot has returned, the recorded fingerprint
\* being the None that get_screenplay_hash gives for such a snapshot
C21_Witness ==
    \E t \in Threads :
        /\ sp = NoScreenplay
        /\ pc[t] = "context"
        /\ ensure_result[t] = "no_screenplay"
        /\ HashOf(sp) = current_screenplay_hash

\* the whole text of a document, one line of the editor per output line
AllText(lines) == JoinLines([i \in 1..Len(lines) |-> lines[i].text])

\* the number of characters of a document that are not white space
NonSpaceChars(lines) == Cardinality(NonSpaceIdx(AllText(lines)))

\* the positions of the lines of scene type
HeadingLines(lines) == {i \in 1..Len(lines) : lines[i].lt = SCENE}

\* store_screenplay_embeddings has read the document d for thread t
Stored(t, d) == store_doc[t] = d /\ d \in DocNames

\* store_screenplay_embeddings of thread t has just chunked the document d
Chunked(t, d) == Stored(t, d) /\ pc[t] = "add"

\* C22: a document with no line of heading type and at least 100 characters that
\* are not white space is chunked into exactly one chunk, which covers the whole
\* document and carries the sequence number 1 and the whole-document heading.
C22_FallbackChunk ==
    \A t \in Threads : \A d \in DocNames :
        ( /\ Stored(t, d)
          /\ HeadingLines(DocLines(d)) = {}
          /\ NonSpaceChars(DocLines(d)) >= MinContentChars )
        => /\ Len(ChunksOfDoc[d]) = 1
           /\ ChunksOfDoc[d][1].text = AllText(DocLines(d))
           /\ "scene_number" \in DOMAIN ChunksOfDoc[d][1].metadata
           /\ ChunksOfDoc[d][1].metadata["scene_number"] = 1
           /\ ChunksOfDoc[d][1].metadata["scene_heading"] = EntireScreenplay

\* C23: for a snapshot below the minimum content (fewer than 100 characters that
\* are not white space, the document of no lines included) ensureUpToDate reports
\* that there is nothing to index and attempts no build: no Embedding Gateway call,
\* no clear of and no insert into the Vector Index, and the index is not ready.
C23_NothingToIndex ==
    \A t \in Threads : \A d \in DocNames :
        (Stored(t, d) /\ NonSpaceChars(DocLines(d)) < MinContentChars)
        => /\ ensure_result[t] = "empty"
           /\ embed_calls[t] = 0
           /\ index_writes[t] = 0
           /\ collection = pre_collection[t]
           /\ ~embeddings_initialized

\* C24: for every snapshot with at least 100 characters that are not white space,
\* whatever the number and the types of its lines, an ensureUpToDate during which
\* no gateway and no index call fails ends with the index ready and at least one
\* chunk of the snapshot stored.
C24_ContentIsIndexed ==
    \A t \in Threads : \A d \in DocNames :
        ( /\ Stored(t, d)
          /\ NonSpaceChars(DocLines(d)) >= MinContentChars
          /\ Finished(t)
          /\ faults = 0 )
        => /\ ensure_result[t] = "rebuilt"
           /\ embeddings_initialized
           /\ \E e \in collection : \E i \in 1..Len(ChunksOfDoc[d]) :
                  e.id = ChunksOfDoc[d][i].id

\* the positions of the scene headings: lines of scene type that end their element
SceneHeadings(lines) ==
    {i \in 1..Len(lines) : lines[i].lt = SCENE /\ lines[i].lb = LB_LAST}

\* the position of the n-th scene heading
NthHeading(lines, n) ==
    CHOOSE i \in SceneHeadings(lines) :
        Cardinality({j \in SceneHeadings(lines) : j <= i}) = n

\* the first line is a scene heading and every scene heading is followed by content
HeadedScenes(lines) ==
    /\ 1 \in SceneHeadings(lines)
    /\ \A i \in SceneHeadings(lines) :
          /\ i < Len(lines)
          /\ i + 1 \notin SceneHeadings(lines)
          /\ Strip(lines[i + 1].text) # <<>>

\* C25: a snapshot whose first line is a scene heading and that has n scene
\* headings, each followed by content, is chunked into exactly n chunks numbered
\* 1..n in the order of the document, and a successful ensureUpToDate stores
\* exactly n vectors: one per chunk, and after a clear that did not fail the
\* index holds these n entries and no other.
C25_OneChunkPerScene ==
    \A t \in Threads : \A d \in DocNames :
        (Stored(t, d) /\ HeadedScenes(DocLines(d)) /\ ensure_result[t] = "rebuilt")
        => LET n == Cardinality(SceneHeadings(DocLines(d)))
           IN  /\ Len(ChunksOfDoc[d]) = n
               /\ \A i \in 1..n :
                     /\ ChunksOfDoc[d][i].metadata["scene_number"] = i
                     /\ ChunksOfDoc[d][i].metadata["line_number"] + 1
                            = NthHeading(DocLines(d), i)
               /\ embeddings[t] = n
               /\ \A i \in 1..n : Entry(ChunksOfDoc[d][i]) \in collection
               /\ ~store_fault[t] => Cardinality(collection) = n

\* a successful build of a snapshot of three scenes
C25_Witness ==
    \E t \in Threads : \E d \in DocNames :
        /\ Stored(t, d)
        /\ HeadedScenes(DocLines(d))
        /\ ensure_result[t] = "rebuilt"
        /\ Cardinality(SceneHeadings(DocLines(d))) = 3
        /\ Cardinality(collection) = 3

\* the first lines of the ranges the chunker cuts a document into: every scene
\* heading, and line 1 when lines come before the first heading
Starts(lines) ==
    SceneHeadings(lines) \cup (IF Len(lines) > 0 THEN {1} ELSE {})

\* the last line of the range that starts at line s
RangeEnd(lines, s) ==
    IF \E h \in Starts(lines) : h > s
    THEN SetMin({h \in Starts(lines) : h > s}) - 1
    ELSE Len(lines)

\* the raw text of the lines of the range that starts at s, one line per output line
RangeText(lines, s) ==
    JoinLines([k \in 1..(RangeEnd(lines, s) - s + 1) |-> lines[s + k - 1].text])

\* the ranges whose text is not empty and not white space only
KeptStarts(lines) == {s \in Starts(lines) : Strip(RangeText(lines, s)) # <<>>}

\* the n-th of a set of line numbers, in the order of the document
NthOf(starts, n) == CHOOSE s \in starts : Cardinality({r \in starts : r <= s}) = n

\* the texts of the kept ranges, in the order of the document
KeptTexts(lines) ==
    LET kept == KeptStarts(lines)
    IN  [i \in 1..Cardinality(kept) |-> RangeText(lines, NthOf(kept, i))]

\* C26: a scene heading that ends its element starts a new chunk and the lines up
\* to the next such heading belong to it; the text of a chunk is the raw text of
\* its lines, in order, one line per output line; the ranges cover every line of
\* the snapshot exactly once, and the chunks are the ranges in order, without
\* those, and only those, whose text is empty or white space.
C26_ChunkRanges ==
    \A t \in Threads : \A d \in DocNames :
        Chunked(t, d)
        => /\ [i \in 1..Len(chunks[t]) |-> chunks[t][i].text] = KeptTexts(DocLines(d))
           /\ \A k \in 1..Len(DocLines(d)) :
                 Cardinality({s \in Starts(DocLines(d)) :
                                 s <= k /\ k <= RangeEnd(DocLines(d), s)}) = 1

\* the chunks of a snapshot one of whose ranges was dropped for being white space
C26_Witness ==
    \E t \in Threads : \E d \in DocNames :
        /\ Chunked(t, d)
        /\ KeptStarts(DocLines(d)) # Starts(DocLines(d))

\* the line types that have a flag in the metadata of a chunk
FlagOf == (CHARACTER :> "has_character") @@ (DIALOGUE :> "has_dialogue")
          @@ (ACTION_LT :> "has_action")

\* the metadata holds the flag, set
FlagSet(meta, flag) == flag \in DOMAIN meta /\ meta[flag] = TRUE

\* a line of the type lies in the range that starts at line s
TypeInRange(lines, s, lt) == \E k \in s..RangeEnd(lines, s) : lines[k].lt = lt

\* C27: for every chunk and each of the types character name, dialogue and action,
\* the flag of the type is set in the metadata of the chunk if and only if a line
\* of that type lies in the line range of the chunk.
C27_FlagsMatchLines ==
    \A t \in Threads : \A d \in DocNames :
        Chunked(t, d)
        => LET kept == KeptStarts(DocLines(d))
           IN  \A i \in 1..Len(chunks[t]) : \A lt \in DOMAIN FlagOf :
                   FlagSet(chunks[t][i].metadata, FlagOf[lt])
                       <=> TypeInRange(DocLines(d), NthOf(kept, i), lt)

\* chunks of one snapshot of which one has action and no dialogue, another dialogue
\* and no action
C27_Witness ==
    \E t \in Threads : \E i, j \in 1..Len(chunks[t]) :
        /\ Chunked(t, store_doc[t])
        /\ FlagSet(chunks[t][i].metadata, "has_action")
        /\ ~FlagSet(chunks[t][i].metadata, "has_dialogue")
        /\ FlagSet(chunks[t][j].metadata, "has_dialogue")
        /\ ~FlagSet(chunks[t][j].metadata, "has_action")

\* C28: chunking is a function of the content of the snapshot alone: chunking the
\* same content again gives the same chunks with the same ids.  Every entry that
\* the index held when a rebuild began and that has the text and the metadata of a
\* chunk of the rebuild has the id of that chunk.
C28_RechunkSameIds ==
    \A t \in Threads : \A e \in pre_collection[t] : \A i \in 1..Len(chunks[t]) :
        (e.document = chunks[t][i].text /\ e.metadata = chunks[t][i].metadata)
            => e.id = chunks[t][i].id

\* a call of thread t to the Embedding Gateway or to the Vector Index fails
FaultStep(t) == faults' = faults + 1 /\ pc'[t] # pc[t]

\* store_screenplay_embeddings of thread t finds nothing to index
EmptyStep(t) ==
    /\ pc[t] = "store" /\ pc'[t] # "store"
    /\ sp \in DocNames
    /\ ~ContentOfDoc[sp] \/ ChunksOfDoc[sp] = <<>>

\* get_ai_response of thread t finds the index not ready
NotReadyStep(t) == pc[t] = "context" /\ pc'[t] # "context" /\ ~embeddings_initialized

\* ensure_embeddings_up_to_date returns False to get_ai_response, which goes on
EnsureReturnsFalse(t, why) ==
    /\ pc'[t] = "context"
    /\ ensure_result'[t] = why
    /\ last_ensure'.ok = FALSE
    /\ ~embeddings_initialized'

\* C29: every failure of the embedding and index path comes back from
\* ensureUpToDate and from retrieve as a result value, and the caller goes on: a
\* failed gateway call, a failed index call, a document with nothing to index and
\* an index that is not ready each leave the thread at the next position of
\* get_ai_response with the failure recorded in the result.
C29_FailuresAreValues ==
    [][\A t \in Threads :
          /\ (FaultStep(t) /\ pc[t] \in {"clear_get", "clear_delete"}) => pc'[t] = "store"
          /\ (FaultStep(t) /\ pc[t] = "store")
                 => \/ EnsureReturnsFalse(t, "embed_failed")
                    \/ pc'[t] = "add" /\ embeddings'[t] # Len(chunks'[t])
          /\ (pc[t] = "add" /\ pc'[t] # "add" /\ embeddings[t] # Len(chunks[t]))
                 => EnsureReturnsFalse(t, "embed_short")
          /\ (FaultStep(t) /\ pc[t] = "add") => EnsureReturnsFalse(t, "store_failed")
          /\ EmptyStep(t) => EnsureReturnsFalse(t, "empty")
          /\ NotReadyStep(t)
                 => pc'[t] = "posted" /\ search_result'[t] = "none"
                    /\ semantic_context'[t] = <<>>
          /\ (FaultStep(t) /\ pc[t] = "query_embed")
                 => pc'[t] = "posted" /\ search_result'[t] = "miss_fail"
                    /\ semantic_context'[t] = <<>>
          /\ (FaultStep(t) /\ pc[t] = "query")
                 => pc'[t] = "posted" /\ search_results'[t] = NoResults
                    /\ semantic_context'[t] = <<>>]_vars

\* a failed insert has come back from ensureUpToDate as a result and the request
\* has gone on to its end
C29_Witness ==
    \E t \in Threads :
        /\ pc[t] = "posted"
        /\ ensure_result[t] = "store_failed"
        /\ faults = 1
        /\ semantic_context[t] = <<>>

\* C30: retrieve requires k >= 1: a call with k < 1 is a violation of the contract
\* and does not end as an ordinary failure of the search nor as an empty result.
C30_NumberBelowOneIsFatal ==
    \A t \in Threads :
        (pc[t] = "posted" /\ search_result[t] \in {"hit", "miss_ok"} /\ n_results[t] < 1)
        => /\ search_results[t] # NoResults
           /\ search_results[t] # [ok |-> TRUE, rows |-> <<>>]

\* the scene number written in a chunk id: the n of f"scene_{n}_{hash}"
IdNumber(id) == CHOOSE n \in 0..HashPrefixLines : Str(n) = id[2]

\* C37: within the result of one chunk_screenplay_scenes call the chunk ids are
\* pairwise distinct: the scene numbers in them grow strictly from chunk to
\* chunk, 0 standing only for the text before the first heading, so one rebuild
\* never adds two entries under one id.
C37_ChunkIdsDistinct ==
    \A t \in Threads : \A d \in DocNames :
        Chunked(t, d)
        => LET cs == chunk_screenplay_scenes(DocLines(d))
           IN  /\ \A i, j \in 1..Len(cs) :
                     i < j => /\ cs[i].id # cs[j].id
                              /\ IdNumber(cs[i].id) < IdNumber(cs[j].id)
               /\ \A i \in 1..Len(cs) :
                     /\ IdNumber(cs[i].id) <= Cardinality(SceneHeadings(DocLines(d)))
                     /\ IdNumber(cs[i].id) = 0
                            => (i = 1 /\ 1 \notin SceneHeadings(DocLines(d)))
               /\ chunks[t] = cs
                     => Cardinality({Entry(cs[i]).id : i \in 1..Len(cs)}) = Len(cs)

\* the chunks of a scene written twice, with one text and two ids
C37_Witness ==
    \E t \in Threads :
        /\ Chunked(t, "twins")
        /\ Len(chunks[t]) = 2
        /\ chunks[t][1].text = chunks[t][2].text
        /\ chunks[t][1].id # chunks[t][2].id

\* the texts of the lines lo..hi one after the other, with nothing between them
RECURSIVE TextRange(_, _, _)
TextRange(lines, lo, hi) ==
    IF lo > hi THEN <<>>
    ELSE IF lo = hi THEN lines[lo].text
    ELSE LET mid == (lo + hi) \div 2
         IN  TextRange(lines, lo, mid) \o TextRange(lines, mid + 1, hi)

\* two snapshots that get_screenplay_hash reads to their end, with the same number
\* of lines and the same characters, whatever their types and their division
\* into lines
SameText(d, e) ==
    /\ Len(DocLines(d)) = Len(DocLines(e))
    /\ Len(DocLines(d)) <= HashPrefixLines
    /\ Len(TextRange(DocLines(d), 1, Len(DocLines(d)))) <= HashPrefixChars
    /\ TextRange(DocLines(d), 1, Len(DocLines(d)))
           = TextRange(DocLines(e), 1, Len(DocLines(e)))

\* the step of ensure_embeddings_up_to_date of thread t that follows a successful
\* call on a snapshot with the text and the line count of the present one
EnsureOnSameText(t) ==
    /\ pc[t] = "ensure"
    /\ pc'[t] # "ensure"
    /\ sp # NoScreenplay
    /\ embeddings_initialized
    /\ last_ensure.ok
    /\ last_ensure.doc # NoScreenplay
    /\ SameText(sp, last_ensure.doc)

\* C36: the fingerprint ignores the type tags and the line boundaries: snapshots
\* with the same concatenated text and the same line count have equal
\* fingerprints, so after a successful build ensure_embeddings_up_to_date skips
\* the rebuild for an edit that only changes them and leaves the index as it is.
C36_FingerprintIgnoresTags ==
    [][\A t \in Threads :
          EnsureOnSameText(t)
          => /\ HashOf(sp) = HashOf(last_ensure.doc)
             /\ ensure_result'[t] = "skipped"
             /\ collection' = collection]_vars

\* the request after an action line became a scene heading skipped the rebuild:
\* the index holds the one chunk of the old structure, not the two of the new one
C36_Witness ==
    \E t \in Threads :
        /\ pc[t] = "context"
        /\ ensure_result[t] = "skipped"
        /\ prev_ensure[t] = [doc |-> "plain", ok |-> TRUE]
        /\ ensure_doc[t] = "retagged"
        /\ collection = EntriesOf(ChunksOfDoc["plain"])
        /\ Cardinality(collection) = 1
        /\ Len(ChunksOfDoc["retagged"]) = 2

\* the step of ensure_embeddings_up_to_date of thread t on a snapshot it can read,
\* when the call before it was made on the same snapshot and failed
EnsureAfterFailure(t) ==
    /\ pc[t] = "ensure"
    /\ pc'[t] # "ensure"
    /\ ~Unreadable(sp)
    /\ last_ensure = [doc |-> sp, ok |-> FALSE]

\* thread t has begun the rebuild of a snapshot with enough content whose rebuild
\* failed in the call before; n faults and m edits have happened so far
Retrying(t, n, m) ==
    /\ pc[t] = "clear_get"
    /\ ensure_doc[t] \in DocNames
    /\ prev_ensure[t] = [doc |-> ensure_doc[t], ok |-> FALSE]
    /\ ContentOfDoc[ensure_doc[t]]
    /\ faults = n
    /\ edits = m

\* ensure_embeddings_up_to_date of thread t has returned True from a rebuild and
\* the fingerprint of the snapshot is recorded
RebuiltAndRecorded(t) ==
    /\ pc[t] = "context"
    /\ ensure_result[t] = "rebuilt"
    /\ current_screenplay_hash = HashOf(ensure_doc[t])

\* C35: current_screenplay_hash changes only in the step that ends a successful
\* rebuild, which records the fingerprint of the snapshot; the call that follows a
\* failed one on the same snapshot attempts the rebuild again; and that attempt
\* ends with the rebuild done and the fingerprint recorded, unless the gateway
\* or the index fails again or the screenplay is edited meanwhile.
C35_HashRecordedOnSuccess ==
    /\ [][/\ current_screenplay_hash' # current_screenplay_hash
              => \E t \in Threads :
                     /\ pc[t] = "finish"
                     /\ ensure_result'[t] = "rebuilt"
                     /\ current_screenplay_hash' = HashOf(ensure_doc[t])
          /\ \A t \in Threads :
                 (pc[t] = "finish" /\ ensure_result'[t] = "rebuilt")
                 => current_screenplay_hash' = HashOf(ensure_doc[t])
          /\ \A t \in Threads :
                 EnsureAfterFailure(t)
                 => pc'[t] = "clear_get" /\ ensure_result'[t] = "running"]_vars
    /\ \A t \in Threads : \A n \in 0..MaxFaults : \A m \in 0..MaxEdits :
           Retrying(t, n, m)
           ~> (RebuiltAndRecorded(t) \/ faults > n \/ edits > m)

\* a rebuild that failed in the gateway was attempted again on the same snapshot
\* and succeeded: the fingerprint is recorded now
C35_Witness ==
    \E t \in Threads :
        /\ RebuiltAndRecorded(t)
        /\ prev_ensure[t] = [doc |-> ensure_doc[t], ok |-> FALSE]
        /\ faults > 0

\* get_ai_response of thread t is about to post its response after an
\* ensure_embeddings_up_to_date that returned False or a retrieval that failed
FailedTurn(t) ==
    /\ pc[t] = "posted"
    /\ \/ ensure_result[t] \notin {"rebuilt", "skipped"}
       \/ search_result[t] = "miss_fail"
       \/ search_result[t] \in {"hit", "miss_ok", "cleared"} /\ ~search_results[t].ok

\* C31: whenever ensure_embeddings_up_to_date or the retrieval fails (service
\* unavailable, embedding error, store error, empty document) the chat turn goes
\* on: get_ai_response requests the completion with empty semantic context and
\* posts that completion.
C31_DegradedTurnCompletes ==
    \A t \in Threads :
        FailedTurn(t) => response[t] = "completion" /\ semantic_context[t] = <<>>

\* the step of OnSend
SendStep == sends' = sends + 1

\* C38: every OnSend that disables the Send button and starts a worker thread is
\* followed in the end by the handle_ai_response of that thread, which enables
\* the button, on the success path and on the exception path of
\* get_ai_response; with no AI service the button is enabled when OnSend
\* returns and no thread is started.
C38_SendButtonReenabled ==
    /\ \A t \in Threads : (pc[t] = "ensure") ~> (pc[t] = "idle" /\ send_button)
    /\ [][\A t \in Threads : (pc[t] = "posted" /\ pc'[t] = "idle") => send_button']_vars
    /\ [][(SendStep /\ ~ai_service) => (send_button' /\ pc' = pc)]_vars
    /\ [][(SendStep /\ ai_service)
             => (~send_button' /\ \E t \in Threads : pc[t] = "idle" /\ pc'[t] = "ensure")]_vars

\* both requests ended on the exception path of get_ai_response and the button
\* is enabled
C38_Witness ==
    /\ ai_service
    /\ ~embedding_ai_service
    /\ sends = ParSends
    /\ \A t \in Threads : pc[t] = "idle"
    /\ send_button

\* the step of thread t that calls update_screenplay_hash, and its argument
UpdateStep(t) ==
    \/ pc[t] = "ensure" /\ ensure_result'[t] = "skipped" /\ embedding_ai_service
    \/ pc[t] = "finish" /\ pc'[t] # "finish"

UpdateArgument(t) == IF pc[t] = "ensure" THEN HashOf(sp) ELSE current_hash[t]

PrefixChars(lines, k) == Len(TextRange(lines, 1, k))

\* the last line get_screenplay_hash reads: the first of the first 50 lines that
\* brings the text read above 1000 characters, or the last of them
StopLine(lines) ==
    LET n == IF Len(lines) < HashPrefixLines THEN Len(lines) ELSE HashPrefixLines
        over == {k \in 1..n : PrefixChars(lines, k) > HashPrefixChars}
    IN  IF over = {} THEN n ELSE SetMin(over)

\* two snapshots with the same number of lines and the same text in every line
\* up to the stop line of the first
SameToStop(d, e) ==
    /\ Len(DocLines(d)) = Len(DocLines(e))
    /\ \A i \in 1..StopLine(DocLines(d)) : DocLines(d)[i].text = DocLines(e)[i].text

ContextReturned(t) ==
    pc[t] = "posted" /\ search_result[t] \in {"hit", "miss_ok", "miss_fail", "cleared"}

\* C33: get_semantic_context emits at most n_results scene entries, the text of
\* an entry is the chunk text when that has at most 500 characters and else its
\* first 500 characters followed by "...", and the bundle is the empty string
\* when the search fails or returns no documents.
C33_BundleBounded ==
    \A t \in Threads :
        ContextReturned(t) =>
            LET rows == search_results[t].rows
            IN  IF ~search_results[t].ok \/ rows = <<>>
                THEN semantic_context[t] = <<>>
                ELSE /\ Len(ContextResults(t)) <= n_results[t]
                     /\ Len(ContextResults(t)) = Len(rows)
                     /\ \A i \in 1..Len(rows) :
                            LET doc == rows[i].document
                                text == ContextResults(t)[i].text
                            IN  IF Len(doc) <= ContextTextChars THEN text = doc
                                ELSE /\ Len(text) = ContextTextChars + 3
                                     /\ \A j \in 1..ContextTextChars : text[j] = doc[j]
                                     /\ \A j \in 1..3 : text[ContextTextChars + j] = "."
\* the scene positions (1-based) of a chunker's screenplay whose processing raises
\* nothing and whose extracted content is not blank
ChunkedScenes(given) ==
    {k \in 1..Len(given.scenes) :
        /\ ~given.scenes[k].raises
        /\ Strip(get_scene_content(given.lines, given.scenes[k].start,
                                   given.scenes[k].end)) # <<>>}

\* the number of rows of a text
Rows(text) == 1 + Cardinality({i \in 1..Len(text) : text[i] = "\n"})

\* the lines of a place that are neither parentheticals nor transitions
SpokenLines(lines, place) ==
    {i \in SceneRange(lines, place.start, place.end) :
        lines[i].lt # PAREN /\ lines[i].lt # TRANSITION}

\* C34: chunk_by_scene returns the empty list for a missing screenplay and else
\* one chunk per scene location with non-blank extracted content, in scene order,
\* with scene_number the 1-based position of the scene; the chunk text has one
\* row per line that is neither a parenthetical nor a transition; a scene whose
\* processing raises is left out, the others are returned, and the call returns.
C34_ChunkByScene ==
    chunker.called =>
        LET given == chunker.sp
            out == chunker.chunks
            kept == Ascending(ChunkedScenes(given))
        IN  IF ~given.present THEN out = <<>>
            ELSE /\ Len(out) = Len(kept)
                 /\ \A j \in 1..Len(out) :
                        /\ out[j].metadata.scene_number = kept[j]
                        /\ out[j].metadata.scene_name = given.scenes[kept[j]].name
                        /\ Rows(out[j].text)
                               = Cardinality(SpokenLines(given.lines, given.scenes[kept[j]]))

\* the first scene raised and the second, with a transition in its range, was
\* returned as scene 2 with the rows of its other two lines
C34_Witness ==
    /\ chunker.called
    /\ chunker.sp.present
    /\ chunker.sp.lines = MixedLines
    /\ Len(chunker.sp.scenes) = 2
    /\ chunker.sp.scenes[1].raises
    /\ chunker.sp.scenes[2] = Place("past", 3, 9, FALSE)
    /\ Len(chunker.chunks) = 1
    /\ chunker.chunks[1].metadata.scene_number = 2
    /\ Rows(chunker.chunks[1].text) = 2
====
